---- MODULE Spec2Model ----
(***************************************************************************)
(* Order execution and leveraged-position accounting of FinAI.             *)
(*                                                                         *)
(* Money and prices are integers in cents (1/100 of the currency unit);    *)
(* the executors compute in Decimal and store floats, and the inputs drawn *)
(* below are chosen so that every product and quotient the code forms is   *)
(* a whole number of cents, except where a comment says otherwise.         *)
(* Quantities are whole units.  Time is in hours.                          *)
(***************************************************************************)
EXTENDS Integers, Sequences, FiniteSets, TLC

\* ------------------------------------------------------------------------
\* Bounds of the model
\* ------------------------------------------------------------------------
MaxOrders == 3
MaxTicks == 1
\* the cap on the orders placed in the short runs
MaxShortRun == 2
\* the cap on the order rows of the validation runs
MaxSubmitted == 1

\* ------------------------------------------------------------------------
\* Program constants
\* ------------------------------------------------------------------------
\* order_executor_astock.py (rates are per 100000 of notional)
ASTOCK_MIN_COMMISSION == 500
ASTOCK_COMMISSION_RATE == 30
ASTOCK_STAMP_TAX_RATE == 100
ASTOCK_MIN_ORDER_QUANTITY == 100
ASTOCK_LOT_SIZE == 100
\* mt5_order_executor.py
CN_MIN_ORDER_QUANTITY == 100
CN_COMMISSION_RATE == 30
CN_MIN_COMMISSION == 500
CN_STAMP_TAX_RATE == 100
CN_TRANSFER_FEE_RATE == 2
\* ibkr_order_executor.py / futu_order_executor.py
\* (US_COMMISSION_PER_SHARE is in tenths of a cent per share)
US_MIN_ORDER_QUANTITY == 1
US_COMMISSION_PER_SHARE == 5
US_MIN_COMMISSION == 100
HK_MIN_ORDER_QUANTITY == 100
HK_COMMISSION_RATE == 30
HK_MIN_COMMISSION == 300
HK_PLATFORM_FEE == 1500
HK_STAMP_DUTY_RATE == 100
\* database.models constants imported by order_executor_leverage.py
\* (taker fee and hourly interest are per 100000 of notional)
CRYPTO_TAKER_FEE_RATE == 100
CRYPTO_INTEREST_RATE_HOURLY == 10
CRYPTO_MAX_LEVERAGE == 50
CRYPTO_MIN_ORDER_QUANTITY == 1
\* Account.maintenance_margin_ratio, in percent
MAINTENANCE_MARGIN_PCT == 50
\* hours that pass between two observations of the clock
HOURS_PER_TICK == 1000

\* ------------------------------------------------------------------------
\* Arithmetic helpers
\* ------------------------------------------------------------------------
Max(a, b) == IF a >= b THEN a ELSE b
Min(a, b) == IF a <= b THEN a ELSE b

\* notional * rate, the rate being given per 100000
Rate(n, r) == (n * r) \div 100000

\* the value the price oracle returns when it has no price (None)
NoPrice == -1
\* last_interest_time = None
NoTime == -1

\* ------------------------------------------------------------------------
\* Ledger
\* ------------------------------------------------------------------------
Accounts == {"acc1"}

CryptoSymbols == {"BTC", "ETH"}
\* symbols that start with "HK." / "US."
HKPrefixed == {"HK.00700"}
USPrefixed == {"US.AAPL"}

PosKeys == {<<"600000", "ASTOCK">>, <<"600000", "CN">>, <<"AAPL", "US">>,
            <<"US.AAPL", "US">>, <<"HK.00700", "HK">>,
            <<"BTC", "CRYPTO">>, <<"ETH", "CRYPTO">>}

\* no Position row for the key
NoPos == [present |-> FALSE, quantity |-> 0, available_quantity |-> 0,
          avg_cost |-> 0, leverage |-> 1, side |-> "NULL",
          accumulated_interest |-> 0, last_interest_time |-> NoTime]

NewLedger(cash) ==
    [acct |-> [a \in Accounts |-> [current_cash |-> cash, margin_used |-> 0,
                                    initial_capital |-> cash]],
     pos |-> [a \in Accounts |-> [k \in PosKeys |-> NoPos]],
     orders |-> << >>,
     trades |-> << >>]

\* db.query(Position).filter(account_id, symbol, market).first()
QueryPosition(L, a, symbol, market) == L.pos[a][<<symbol, market>>]

SetPosition(L, a, symbol, market, p) ==
    [L EXCEPT !.pos[a][<<symbol, market>>] = p]

SetCash(L, a, c) == [L EXCEPT !.acct[a].current_cash = c]
SetMargin(L, a, m) == [L EXCEPT !.acct[a].margin_used = m]

\* Order(...); db.add(order); db.flush()
AddOrder(L, a, symbol, market, side, order_type, price, quantity, leverage, origin) ==
    [L EXCEPT !.orders = Append(@,
        [order_no |-> Len(L.orders) + 1, account_id |-> a, symbol |-> symbol,
         market |-> market, side |-> side, order_type |-> order_type,
         price |-> price, quantity |-> quantity, leverage |-> leverage,
         filled_quantity |-> 0, status |-> "PENDING", origin |-> origin])]

\* an order that is marked FILLED without a Trade row
FillOrder_Unrecorded(L, oid, commission, taker_fee, interest_charged) ==
    [L EXCEPT !.orders[oid].filled_quantity = L.orders[oid].quantity,
              !.orders[oid].status = "FILLED"]

\* Trade(...); db.add(trade); order.filled_quantity = quantity; order.status = "FILLED"
FillOrder(L, oid, commission, taker_fee, interest_charged) ==
    LET o == L.orders[oid] IN
    [L EXCEPT !.trades = Append(@,
        [order_id |-> oid, account_id |-> o.account_id, symbol |-> o.symbol,
         market |-> o.market, side |-> o.side, price |-> o.price,
         quantity |-> o.quantity, commission |-> commission,
         taker_fee |-> taker_fee, interest_charged |-> interest_charged]),
             !.orders[oid].filled_quantity = o.quantity,
             !.orders[oid].status = "FILLED"]

\* the outcome of a call: the state of the session when the call returns or
\* raises, and the error raised ("" when the call returned the order)
Ok(L) == [L |-> L, err |-> ""]
Raise(L, e) == [L |-> L, err |-> e]

\* ------------------------------------------------------------------------
\* Fee schedule
\* ------------------------------------------------------------------------
\* order_executor_astock._calc_astock_fee: (commission, stamp_tax)
_calc_astock_fee(notional, is_sell) ==
    [commission |-> Max(Rate(notional, ASTOCK_COMMISSION_RATE), ASTOCK_MIN_COMMISSION),
     stamp_tax |-> IF is_sell THEN Rate(notional, ASTOCK_STAMP_TAX_RATE) ELSE 0]

\* mt5_order_executor._calc_cn_fee: commission + stamp tax + transfer fee
_calc_cn_fee(quantity, price, is_sell) ==
    LET notional == quantity * price
        commission == Max(Rate(notional, CN_COMMISSION_RATE), CN_MIN_COMMISSION)
        stamp_tax == IF is_sell THEN Rate(notional, CN_STAMP_TAX_RATE) ELSE 0
        transfer_fee == Rate(notional, CN_TRANSFER_FEE_RATE)
    IN commission + stamp_tax + transfer_fee

\* ibkr_order_executor._calc_us_fee / futu_order_executor._calc_us_fee
_calc_us_fee(quantity) ==
    Max((quantity * US_COMMISSION_PER_SHARE) \div 10, US_MIN_COMMISSION)

\* futu_order_executor._calc_hk_fee: (commission, platform_fee, stamp_duty)
_calc_hk_fee(notional, is_sell) ==
    [commission |-> Max(Rate(notional, HK_COMMISSION_RATE), HK_MIN_COMMISSION),
     platform_fee |-> HK_PLATFORM_FEE,
     stamp_duty |-> Rate(notional, HK_STAMP_DUTY_RATE)]

\* order_executor_leverage._calc_crypto_fee
_calc_crypto_fee(notional, leverage) == Rate(notional, CRYPTO_TAKER_FEE_RATE)

\* ------------------------------------------------------------------------
\* Spot executors
\* ------------------------------------------------------------------------
\* "if order_type == 'MARKET' or not price: get_last_price(symbol, 'ASTOCK')"
\* (order_executor_astock); NoPrice when Decimal(str(None)) raises
AstockExecPrice(order_type, price, oracle) ==
    IF order_type = "MARKET" \/ price = 0 \/ price = NoPrice THEN oracle ELSE price

\* "get_last_price(symbol) or price" (mt5, ibkr, futu executors)
OrPriceExecPrice(order_type, price, oracle) ==
    IF order_type = "MARKET" \/ price = 0 \/ price = NoPrice
    THEN (IF oracle = NoPrice \/ oracle = 0 THEN price ELSE oracle)
    ELSE price

\* a BUY that deducts the notional and forgets the fees
BuyCost_NoFee(notional, total_fee) == notional

\* "total_cost = notional + total_fee": what a BUY deducts from current_cash
BuyCost(notional, total_fee) == notional + total_fee

\* a SELL that credits the full notional
SellGain_NoFee(notional, total_fee) == notional

\* "cash_gain = notional - total_fee": what a SELL adds to current_cash
SellGain(notional, total_fee) == notional - total_fee

\* "new_cost = (old_notional + notional) / new_qty", to the cent
WeightedCost(old_notional, notional, new_qty) == (old_notional + notional) \div new_qty

\* an except clause that lets the exception of the platform escape
MirrorExcept_Propagates(e) == e

\* "except Exception as e: logger.error(...)" of the mirror step: the exception
\* is logged and the executor goes on; no error leaves the clause
MirrorExcept(e) == ""

\* "if use_platform: try: place_..._order(...) except ...": the error that
\* leaves the mirror step when the remote call succeeds ("ok"), returns
\* failure ("fail") or throws ("throw")
MirrorStep(use_platform, remote) ==
    IF use_platform /\ remote = "throw" THEN MirrorExcept("RemoteError") ELSE ""

\* the end of an executor after the mirror step: the trade record, FILLED
Settle(L, oid, commission, taker_fee, mirror_err) ==
    IF mirror_err # "" THEN Raise(L, mirror_err)
    ELSE Ok(FillOrder(L, oid, commission, taker_fee, 0))

\* The body the four spot executors share, from the creation of the order row
\* to the commit: order row, BUY / SELL branch, trade, FILLED.
SpotExecute(L, a, symbol, market, side, order_type, exec_price, quantity, total_fee, commission, taker_fee, mirror_err) ==
    LET notional == exec_price * quantity
        L1 == AddOrder(L, a, symbol, market, side, order_type, exec_price,
                       quantity, 1, "USER")
        oid == Len(L1.orders)
        pos == QueryPosition(L1, a, symbol, market)
        cash == L1.acct[a].current_cash
    IN
    IF side = "BUY" THEN
        IF cash < BuyCost(notional, total_fee) THEN Raise(L1, "InsufficientFunds")
        ELSE
            LET L2 == SetCash(L1, a, cash - BuyCost(notional, total_fee))
                old_notional == pos.quantity * pos.avg_cost
                new_qty == pos.quantity + quantity
            IN
            IF pos.present THEN
                IF new_qty = 0 THEN Raise(L2, "DivisionByZero")
                ELSE Settle(
                        SetPosition(L2, a, symbol, market,
                            [pos EXCEPT !.quantity = new_qty,
                                        !.available_quantity = new_qty,
                                        !.avg_cost = WeightedCost(old_notional, notional, new_qty)]),
                        oid, commission, taker_fee, mirror_err)
            ELSE Settle(
                        SetPosition(L2, a, symbol, market,
                            [NoPos EXCEPT !.present = TRUE,
                                          !.quantity = quantity,
                                          !.available_quantity = quantity,
                                          !.avg_cost = exec_price,
                                          !.leverage = 1]),
                        oid, commission, taker_fee, mirror_err)
    ELSE IF side = "SELL" THEN
        IF ~pos.present \/ pos.available_quantity < quantity
        THEN Raise(L1, "NoPosition")
        ELSE
            LET L2 == SetCash(L1, a, cash + SellGain(notional, total_fee)) IN
            Settle(
                SetPosition(L2, a, symbol, market,
                    [pos EXCEPT !.quantity = pos.quantity - quantity,
                                !.available_quantity = pos.available_quantity - quantity]),
                oid, commission, taker_fee, mirror_err)
    ELSE Raise(L1, "InvalidSide")

\* order_executor_astock.place_and_execute_astock
place_and_execute_astock(L, a, symbol, side, order_type, price, quantity, oracle, use_platform, remote) ==
    IF quantity % ASTOCK_LOT_SIZE # 0 THEN Raise(L, "InvalidQuantity")
    ELSE IF quantity < ASTOCK_MIN_ORDER_QUANTITY THEN Raise(L, "InvalidQuantity")
    ELSE
        LET exec_price == AstockExecPrice(order_type, price, oracle) IN
        IF exec_price = NoPrice THEN Raise(L, "PriceUnavailable")
        ELSE
            LET notional == exec_price * quantity
                fee == _calc_astock_fee(notional, side = "SELL")
            IN SpotExecute(L, a, symbol, "ASTOCK", side, order_type, exec_price,
                           quantity, fee.commission + fee.stamp_tax,
                           fee.commission, fee.stamp_tax, MirrorStep(use_platform, remote))

\* mt5_order_executor.place_and_execute_mt5_order (market = "CN")
place_and_execute_mt5_order(L, a, symbol, side, order_type, price, quantity, oracle, use_platform, remote) ==
    IF quantity % CN_MIN_ORDER_QUANTITY # 0 THEN Raise(L, "InvalidQuantity")
    ELSE
        LET exec_price == OrPriceExecPrice(order_type, price, oracle) IN
        IF exec_price = NoPrice THEN Raise(L, "PriceUnavailable")
        ELSE
            LET total_fee == _calc_cn_fee(quantity, exec_price, side = "SELL")
            IN SpotExecute(L, a, symbol, "CN", side, order_type, exec_price,
                           quantity, total_fee, total_fee, 0, MirrorStep(use_platform, remote))

\* ibkr_order_executor.place_and_execute_ibkr_order
place_and_execute_ibkr_order(L, a, symbol, side, order_type, price, quantity, oracle, use_platform, remote) ==
    IF quantity < US_MIN_ORDER_QUANTITY THEN Raise(L, "InvalidQuantity")
    ELSE
        LET exec_price == OrPriceExecPrice(order_type, price, oracle) IN
        IF exec_price = NoPrice THEN Raise(L, "PriceUnavailable")
        ELSE
            LET total_fee == _calc_us_fee(quantity)
            IN SpotExecute(L, a, symbol, "US", side, order_type, exec_price,
                           quantity, total_fee, total_fee, 0, MirrorStep(use_platform, remote))

\* "HK" if symbol.startswith("HK.") else "US" if symbol.startswith("US.") else "CN"
FutuMarket(symbol) ==
    IF symbol \in HKPrefixed THEN "HK"
    ELSE IF symbol \in USPrefixed THEN "US" ELSE "CN"

\* futu_order_executor.place_and_execute_futu_order
place_and_execute_futu_order(L, a, symbol, side, order_type, price, quantity, oracle, use_platform, remote) ==
    LET market == FutuMarket(symbol)
        min_qty == IF market = "HK" THEN HK_MIN_ORDER_QUANTITY ELSE US_MIN_ORDER_QUANTITY
    IN
    IF quantity < min_qty THEN Raise(L, "InvalidQuantity")
    ELSE IF market = "HK" /\ quantity % HK_MIN_ORDER_QUANTITY # 0
    THEN Raise(L, "InvalidQuantity")
    ELSE
        LET exec_price == OrPriceExecPrice(order_type, price, oracle) IN
        IF exec_price = NoPrice THEN Raise(L, "PriceUnavailable")
        ELSE
            LET notional == exec_price * quantity
                hk == _calc_hk_fee(notional, side = "SELL")
                total_fee == IF market = "HK"
                             THEN hk.commission + hk.platform_fee + hk.stamp_duty
                             ELSE _calc_us_fee(quantity)
            IN SpotExecute(L, a, symbol, market, side, order_type, exec_price,
                           quantity, total_fee, total_fee, 0, MirrorStep(use_platform, remote))

\* ------------------------------------------------------------------------
\* Leveraged crypto executor
\* ------------------------------------------------------------------------
\* an interest that is charged on the whole notional of the position
_calculate_position_interest_Notional(position, t) ==
    IF position.last_interest_time = NoTime \/ position.leverage <= 1 THEN 0
    ELSE Rate(position.quantity * position.avg_cost, CRYPTO_INTEREST_RATE_HOURLY)
             * (t - position.last_interest_time)

\* order_executor_leverage._calculate_position_interest, at clock t
_calculate_position_interest(position, t) ==
    IF position.last_interest_time = NoTime \/ position.leverage <= 1 THEN 0
    ELSE
        LET hours_elapsed == t - position.last_interest_time
            borrowed_notional ==
                (position.quantity * position.avg_cost * (position.leverage - 1))
                    \div position.leverage
        IN Rate(borrowed_notional, CRYPTO_INTEREST_RATE_HOURLY) * hours_elapsed

\* Opening branch of place_and_execute_crypto (side LONG / SHORT).
\* The result carries the interest charged, for the trade record.
CryptoOpen(L1, a, symbol, side, exec_price, notional, taker_fee, quantity, leverage, t) ==
    LET pos == QueryPosition(L1, a, symbol, "CRYPTO")
        initial_margin == notional \div leverage
        total_cost == initial_margin + taker_fee
        available_cash == L1.acct[a].current_cash
    IN
    IF available_cash < total_cost
    THEN [L |-> L1, err |-> "InsufficientFunds", interest |-> 0]
    ELSE
        LET L2 == SetCash(L1, a, available_cash - total_cost)
            L3 == IF leverage > 1
                  THEN SetMargin(L2, a, L2.acct[a].margin_used + initial_margin)
                  ELSE L2
        IN
        IF pos.present /\ pos.leverage > 1 /\ pos.side # "NULL" THEN
            LET interest_charged == _calculate_position_interest(pos, t)
                posI == IF interest_charged > 0
                        THEN [pos EXCEPT !.accumulated_interest = @ + interest_charged]
                        ELSE pos
                L4 == SetPosition(L3, a, symbol, "CRYPTO", posI)
            IN
            IF interest_charged > 0 /\ L4.acct[a].current_cash < interest_charged
            THEN [L |-> L4, err |-> "InsufficientFunds", interest |-> interest_charged]
            ELSE
                LET L5 == IF interest_charged > 0
                          THEN SetCash(L4, a, L4.acct[a].current_cash - interest_charged)
                          ELSE L4
                    old_notional == pos.quantity * pos.avg_cost
                    new_qty == pos.quantity + quantity
                IN
                IF pos.side = side THEN
                    IF new_qty = 0 \/ old_notional + notional = 0
                    THEN [L |-> L5, err |-> "DivisionByZero", interest |-> interest_charged]
                    ELSE [L |-> SetPosition(L5, a, symbol, "CRYPTO",
                                   [posI EXCEPT
                                      !.quantity = new_qty,
                                      !.avg_cost = WeightedCost(old_notional, notional, new_qty),
                                      !.leverage = (old_notional * pos.leverage + notional * leverage)
                                                       \div (old_notional + notional),
                                      !.last_interest_time = t]),
                          err |-> "", interest |-> interest_charged]
                ELSE [L |-> L5, err |-> "ConflictingPosition", interest |-> interest_charged]
        ELSE
            [L |-> SetPosition(L3, a, symbol, "CRYPTO",
                       [pos EXCEPT !.present = TRUE,
                                   !.quantity = quantity,
                                   !.available_quantity = quantity,
                                   !.avg_cost = exec_price,
                                   !.leverage = leverage,
                                   !.side = side,
                                   !.last_interest_time = t]),
             err |-> "", interest |-> 0]

\* a close that leaves the available quantity as it was
AvailableAfterClose_Kept(available_quantity, quantity) == available_quantity

\* "pos.available_quantity = pos.available_quantity - quantity" of both closes
AvailableAfterClose(available_quantity, quantity) == available_quantity - quantity

\* Closing branch of place_and_execute_crypto (side BUY / SELL).
CryptoClose(L1, a, symbol, side, exec_price, notional, taker_fee, quantity, t) ==
    LET pos == QueryPosition(L1, a, symbol, "CRYPTO") IN
    IF ~pos.present \/ pos.quantity = 0
    THEN [L |-> L1, err |-> "NoPosition", interest |-> 0]
    ELSE
        LET interest_charged == _calculate_position_interest(pos, t)
            posI == IF interest_charged > 0
                    THEN [pos EXCEPT !.accumulated_interest = @ + interest_charged]
                    ELSE pos
            L2 == SetPosition(L1, a, symbol, "CRYPTO", posI)
        IN
        IF interest_charged > 0 /\ L2.acct[a].current_cash < interest_charged
        THEN [L |-> L2, err |-> "InsufficientFunds", interest |-> interest_charged]
        ELSE
            LET L3 == IF interest_charged > 0
                      THEN SetCash(L2, a, L2.acct[a].current_cash - interest_charged)
                      ELSE L2
            IN
            IF pos.leverage > 1 THEN
                IF (side = "SELL" /\ pos.side # "LONG") \/ (side = "BUY" /\ pos.side # "SHORT")
                THEN [L |-> L3, err |-> "SideMismatch", interest |-> interest_charged]
                ELSE IF quantity > pos.quantity
                THEN [L |-> L3, err |-> "NoPosition", interest |-> interest_charged]
                ELSE
                    LET entry_notional == pos.avg_cost * quantity
                        exit_notional == notional
                        pnl == IF pos.side = "LONG"
                               THEN exit_notional - entry_notional
                               ELSE entry_notional - exit_notional
                        margin_released == entry_notional \div pos.leverage
                        net_cash_change == pnl + margin_released - taker_fee
                        L4 == SetCash(L3, a, L3.acct[a].current_cash + net_cash_change)
                        L5 == SetMargin(L4, a, L4.acct[a].margin_used - margin_released)
                        q2 == pos.quantity - quantity
                        pos2 == [posI EXCEPT !.quantity = q2,
                                             !.available_quantity = AvailableAfterClose(pos.available_quantity, quantity)]
                        pos3 == IF q2 = 0
                                THEN [pos2 EXCEPT !.side = "NULL", !.leverage = 1,
                                                  !.last_interest_time = NoTime]
                                ELSE [pos2 EXCEPT !.last_interest_time = t]
                    IN [L |-> SetPosition(L5, a, symbol, "CRYPTO", pos3),
                        err |-> "", interest |-> interest_charged]
            ELSE
                IF side # "SELL"
                THEN [L |-> L3, err |-> "SideMismatch", interest |-> interest_charged]
                ELSE IF quantity > pos.available_quantity
                THEN [L |-> L3, err |-> "NoPosition", interest |-> interest_charged]
                ELSE
                    LET L4 == SetCash(L3, a, L3.acct[a].current_cash + (notional - taker_fee))
                    IN [L |-> SetPosition(L4, a, symbol, "CRYPTO",
                                [posI EXCEPT !.quantity = pos.quantity - quantity,
                                             !.available_quantity = AvailableAfterClose(pos.available_quantity, quantity)]),
                        err |-> "", interest |-> interest_charged]

\* "price if (order_type == 'LIMIT' and price) else get_last_price(symbol, 'CRYPTO')"
CryptoExecPrice(order_type, price, oracle) ==
    IF order_type = "LIMIT" /\ price # 0 /\ price # NoPrice THEN price ELSE oracle

\* a validation of the leverage that has no upper bound
LeverageValid_NoMax(leverage) == leverage >= 1

\* the negation of "if leverage < 1 or leverage > CRYPTO_MAX_LEVERAGE: raise"
LeverageValid(leverage) == leverage >= 1 /\ leverage <= CRYPTO_MAX_LEVERAGE

\* order_executor_leverage.place_and_execute_crypto, called at clock t
place_and_execute_crypto(L, a, symbol, side, order_type, price, quantity, leverage, oracle, t) ==
    IF ~LeverageValid(leverage) THEN Raise(L, "InvalidLeverage")
    ELSE IF quantity < CRYPTO_MIN_ORDER_QUANTITY THEN Raise(L, "InvalidQuantity")
    ELSE
        LET exec_price == CryptoExecPrice(order_type, price, oracle) IN
        IF exec_price = NoPrice THEN Raise(L, "PriceUnavailable")
        ELSE
            LET notional == exec_price * quantity
                taker_fee == _calc_crypto_fee(notional, leverage)
                L1 == AddOrder(L, a, symbol, "CRYPTO", side, order_type, exec_price,
                               quantity, leverage, "USER")
                oid == Len(L1.orders)
                r == IF side \in {"LONG", "SHORT"}
                     THEN CryptoOpen(L1, a, symbol, side, exec_price, notional,
                                     taker_fee, quantity, leverage, t)
                     ELSE IF side \in {"BUY", "SELL"}
                     THEN CryptoClose(L1, a, symbol, side, exec_price, notional,
                                      taker_fee, quantity, t)
                     ELSE [L |-> L1, err |-> "InvalidSide", interest |-> 0]
            IN
            IF r.err # "" THEN Raise(r.L, r.err)
            ELSE Ok(FillOrder(r.L, oid, taker_fee, taker_fee, r.interest))

\* ------------------------------------------------------------------------
\* Margin monitor (services/scheduler.py)
\* ------------------------------------------------------------------------
\* services.order_matching.check_and_execute_order(db, order): executes the
\* flushed MARKET order through the engine's close path.  A rejection marks
\* the order REJECTED and mutates nothing else.
check_and_execute_order(L, oid, oracle, t) ==
    LET o == L.orders[oid]
        exec_price == oracle
        notional == exec_price * o.quantity
        taker_fee == _calc_crypto_fee(notional, o.leverage)
        r == CryptoClose(L, o.account_id, o.symbol, o.side, exec_price, notional,
                         taker_fee, o.quantity, t)
        Rejected == [L |-> [L EXCEPT !.orders[oid].status = "REJECTED"],
                     executed |-> FALSE]
    IN
    IF exec_price = NoPrice \/ exec_price <= 0 THEN Rejected
    ELSE IF r.err # "" THEN Rejected
    ELSE [L |-> FillOrder([r.L EXCEPT !.orders[oid].price = exec_price],
                          oid, taker_fee, taker_fee, r.interest),
          executed |-> TRUE]

\* positions with quantity > 0 and leverage > 1 of the account, as a set of symbols
LeveragedPositions(L, a) ==
    {s \in CryptoSymbols :
        LET p == QueryPosition(L, a, s, "CRYPTO")
        IN p.present /\ p.quantity > 0 /\ p.leverage > 1}

\* a loop that a failed liquidation order aborts
RestAfterFailure_Abort(rest) == << >>

\* the positions still to liquidate after a liquidation order failed: the
\* failure is logged inside the loop ("else: logger.error", "except Exception")
\* and the loop goes on
RestAfterFailure(rest) == rest

\* TaskScheduler._liquidate_positions over the positions listed in syms
\* (a sequence of symbols, in the order the query returned them)
RECURSIVE _liquidate_positions(_, _, _, _, _)
_liquidate_positions(L, a, syms, prices, t) ==
    IF syms = << >> THEN L
    ELSE
        LET s == Head(syms)
            position == QueryPosition(L, a, s, "CRYPTO")
            close_side == IF position.side = "LONG" THEN "SELL" ELSE "BUY"
            L1 == AddOrder(L, a, s, "CRYPTO", close_side, "MARKET", NoPrice,
                           position.quantity, 1, "LIQ")
            done == check_and_execute_order(L1, Len(L1.orders), prices[s], t)
            rest == IF done.executed THEN Tail(syms) ELSE RestAfterFailure(Tail(syms))
        IN
        IF position.quantity <= 0
        THEN _liquidate_positions(L, a, Tail(syms), prices, t)
        ELSE _liquidate_positions(done.L, a, rest, prices, t)

\* the unrealized PnL with every position valued as a LONG
PositionPnl_LongOnly(position, current_price) ==
    IF current_price = NoPrice \/ current_price <= 0 THEN 0
    ELSE position.quantity * (current_price - position.avg_cost)

\* unrealized PnL of one position at current_price, as _check_account_margin
\* computes it; 0 when the price is invalid and the position is skipped
PositionPnl(position, current_price) ==
    IF current_price = NoPrice \/ current_price <= 0 THEN 0
    ELSE IF position.side = "LONG"
         THEN position.quantity * (current_price - position.avg_cost)
    ELSE IF position.side = "SHORT"
         THEN position.quantity * (position.avg_cost - current_price)
    ELSE position.quantity * (current_price - position.avg_cost)

RECURSIVE TotalPnl(_, _, _, _)
TotalPnl(L, a, syms, prices) ==
    IF syms = << >> THEN 0
    ELSE PositionPnl(QueryPosition(L, a, Head(syms), "CRYPTO"), prices[Head(syms)])
         + TotalPnl(L, a, Tail(syms), prices)

\* the margin-call condition of _check_account_margin:
\* margin_used > 0 and equity / margin_used < maintenance_margin_ratio
MarginCall(L, a, syms, prices) ==
    LET equity == L.acct[a].current_cash + TotalPnl(L, a, syms, prices)
        margin_used == L.acct[a].margin_used
    IN margin_used > 0 /\ equity * 100 < MAINTENANCE_MARGIN_PCT * margin_used

\* TaskScheduler._check_account_margin; syms lists the account's leveraged
\* positions in query order
_check_account_margin(L, a, syms, prices, t) ==
    IF syms = << >> THEN L
    ELSE IF MarginCall(L, a, syms, prices)
         THEN _liquidate_positions(L, a, syms, prices, t)
         ELSE L

\* the orderings of a set of symbols
Orderings(S) ==
    {q \in UNION {[1..n -> S] : n \in {Cardinality(S)}} :
        \A i, j \in 1..Cardinality(S) : i # j => q[i] # q[j]}

\* ------------------------------------------------------------------------
\* MT5 AI trader (services/mt5_ai_trader.py)
\* ------------------------------------------------------------------------
\* get_astock_portfolio; the oracle quotes sym at price p and has no quote for
\* any other symbol, whose positions are valued at avg_cost
RECURSIVE PortfolioValue(_, _, _, _, _)
PortfolioValue(L, a, keys, sym, p) ==
    IF keys = {} THEN 0
    ELSE
        LET k == CHOOSE x \in keys : TRUE
            pos == L.pos[a][k]
            current_price == IF k[1] = sym /\ p # NoPrice /\ p # 0 THEN p ELSE pos.avg_cost
            v == IF pos.present /\ pos.quantity > 0 THEN pos.quantity * current_price ELSE 0
        IN v + PortfolioValue(L, a, keys \ {k}, sym, p)

get_astock_portfolio(L, a, sym, p) ==
    [cash |-> L.acct[a].current_cash,
     total_assets |-> L.acct[a].current_cash + PortfolioValue(L, a, PosKeys, sym, p)]

\* execute_astock_ai_decision: the session when it returns; exceptions of the
\* executor are caught and logged.  target_portion is in percent; p1 is the
\* quote read by the decision code, p2 the quote read by the executor; posKey
\* is the Position row the unordered query(account, symbol).first() returned.
execute_astock_ai_decision(L, a, operation, symbol, target_portion, portfolio, p1, p2, posKey) ==
    IF operation = "hold" THEN Ok(L)
    ELSE IF operation = "open" THEN
        LET target_amount == (portfolio.total_assets \div 100) * target_portion
            buy_amount == Min(target_amount, (portfolio.cash \div 100) * 95)
            quantity == (buy_amount \div (p1 * 100)) * 100
        IN
        IF buy_amount < 100000 THEN Ok(L)
        ELSE IF p1 = NoPrice \/ p1 = 0 THEN Ok(L)
        ELSE IF quantity < 100 THEN Ok(L)
        ELSE place_and_execute_mt5_order(L, a, symbol, "BUY", "MARKET", p1, quantity, p2, FALSE, "none")
    ELSE IF operation = "close" THEN
        LET pos == L.pos[a][posKey]
            sell_quantity == ((pos.quantity * target_portion) \div 10000) * 100
        IN
        IF ~pos.present \/ pos.quantity <= 0 THEN Ok(L)
        ELSE IF sell_quantity < 100 THEN Ok(L)
        ELSE IF p1 = NoPrice \/ p1 = 0 THEN Ok(L)
        ELSE place_and_execute_mt5_order(L, a, symbol, "SELL", "MARKET", p1, sell_quantity, p2, FALSE, "none")
    ELSE Ok(L)

\* ------------------------------------------------------------------------
\* State
\* ------------------------------------------------------------------------
VARIABLES
    db,     \* the committed (durable) ledger
    sess,   \* the ledger as the open session holds it: committed rows plus
            \* flushed and dirty changes that are not committed yet
    now,    \* the clock, in hours
    last,   \* the latest call: its arguments, the error it raised and the
            \* ledgers it started from
    inflight, \* the calls that run at the same time, each in a session of
            \* its own (a request thread, the scheduler thread): the ledger
            \* they started from and, per worker, what its session has read
    sched   \* the TaskScheduler: its fields, the jobs of its scheduler and
            \* the latest call on it

vars == <<db, sess, now, last, inflight, sched>>

\* no call on the task scheduler
NoTask == [op |-> "none", id |-> "", interval |-> 0, pre |-> << >>,
           raised |-> FALSE, connected |-> TRUE]

\* TaskScheduler.__init__: scheduler = None, _started = False
NewTaskScheduler == [scheduler |-> "None", _started |-> FALSE, jobs |-> << >>, call |-> NoTask]

\* the threads that execute against the ledger at the same time
Workers == {"w1", "w2"}

\* a worker that has no call in flight
Idle == [stage |-> "idle", kind |-> "", view |-> << >>, o |-> << >>,
         prices |-> << >>, syms |-> << >>, err |-> "", second |-> {}]

\* no concurrent call
Quiet == [base |-> << >>, w |-> [w \in Workers |-> Idle]]

NoPrices == [s \in CryptoSymbols |-> NoPrice]

\* no open to remember
NoOpen == [side |-> "", symbol |-> "", quantity |-> 0, leverage |-> 0, exec_price |-> NoPrice,
           current_cash |-> 0, margin_used |-> 0, fee |-> 0]

NoCall == [op |-> "none", a |-> "", symbol |-> "", market |-> "", side |-> "",
           order_type |-> "", quantity |-> 0, leverage |-> 0, exec_price |-> NoPrice,
           oracle |-> NoPrice, err |-> "", pre |-> << >>, preDb |-> << >>, t |-> 0,
           use_platform |-> FALSE, remote |-> "none", local |-> << >>,
           prices |-> NoPrices, syms |-> << >>, opened |-> NoOpen,
           market_value |-> 0, positions_value |-> 0,
           upto |-> 0, cash |-> 0, total_assets |-> 0]

\* when the latest call opened a position on a flat symbol and filled: that
\* open, with the cash and margin it started from and the fee it paid
JustOpened ==
    IF /\ last.op = "crypto" /\ last.err = "" /\ last.side \in {"LONG", "SHORT"}
       /\ last.pre.pos[last.a][<<last.symbol, "CRYPTO">>].quantity = 0
    THEN [side |-> last.side, symbol |-> last.symbol, quantity |-> last.quantity,
          leverage |-> last.leverage, exec_price |-> last.exec_price,
          current_cash |-> last.pre.acct[last.a].current_cash,
          margin_used |-> last.pre.acct[last.a].margin_used,
          fee |-> sess.trades[Len(sess.trades)].taker_fee]
    ELSE NoOpen

\* the record of an executor call
Call(op, a, symbol, market, side, order_type, quantity, leverage, exec_price, err) ==
    [NoCall EXCEPT !.op = op, !.a = a, !.symbol = symbol, !.market = market,
                   !.side = side, !.order_type = order_type, !.quantity = quantity,
                   !.leverage = leverage, !.exec_price = exec_price, !.err = err,
                   !.pre = sess, !.preDb = db, !.t = now, !.opened = JustOpened]

\* ------------------------------------------------------------------------
\* Inputs
\* ------------------------------------------------------------------------
SpotInitialCash == {10000000}
CryptoInitialCash == {90000}
SpotSides == {"BUY", "SELL"}
\* (order_type, price, oracle quote)
SpotPricing == {<<"LIMIT", 1000, NoPrice>>, <<"MARKET", 0, 2000>>}
SpotQuantities == {100}
FutuSymbols == {"HK.00700", "US.AAPL", "600000"}
CryptoPricing == {<<"LIMIT", 60000, NoPrice>>, <<"MARKET", 0, 120000>>}
CryptoQuantities == {1, 2}
Leverages == {1, 2, 3}
\* (side, order_type, price, oracle quote, quantity, leverage): every open and
\* every close over the sets above (the leverage of a closing order is not
\* used), and one order for each validation the executor makes
CryptoOrders ==
    {<<side, pr[1], pr[2], pr[3], q, lev>> :
        side \in {"LONG", "SHORT"}, pr \in CryptoPricing, q \in CryptoQuantities,
        lev \in Leverages}
    \cup {<<side, pr[1], pr[2], pr[3], q, 1>> :
        side \in {"BUY", "SELL"}, pr \in CryptoPricing, q \in CryptoQuantities}
    \cup {<<"LONG", "LIMIT", 60000, NoPrice, 1, 0>>,
          <<"LONG", "LIMIT", 60000, NoPrice, 1, CRYPTO_MAX_LEVERAGE + 1>>,
          <<"LONG", "LIMIT", 60000, NoPrice, 0, 1>>,
          <<"LONG", "MARKET", 0, NoPrice, 1, 1>>,
          <<"HOLD", "LIMIT", 60000, NoPrice, 1, 1>>}
SweepPrices == {NoPrice, 60000, 120000}
\* quantities and quotes that the validation of an executor has to decide:
\* below the minimum, zero, negative, off the lot, and an oracle that has no
\* price (None) or returns zero, with and without a price in the order
AnyQuantities == {-100, 0, 50, 100, 150}
AnyPricing == {<<"LIMIT", 1000, NoPrice>>, <<"MARKET", 0, 2000>>, <<"MARKET", 0, NoPrice>>,
               <<"MARKET", 0, 0>>, <<"MARKET", 1000, NoPrice>>}
\* the opens of one unit and every close: enough for adds with another
\* leverage, partial closes and full closes
CoreOrders ==
    {<<side, pr[1], pr[2], pr[3], 1, lev>> :
        side \in {"LONG", "SHORT"}, pr \in CryptoPricing, lev \in Leverages}
    \cup {<<side, pr[1], pr[2], pr[3], q, 1>> :
        side \in {"BUY", "SELL"}, pr \in CryptoPricing, q \in CryptoQuantities}
AiOperations == {"hold", "open", "close"}
AiPortions == {50, 200}
AiQuotes == {1000, 2000}

\* (use_platform, outcome of the remote place-order call): the local
\* simulation, and the mirrored order whose remote call succeeds, returns
\* failure or throws
NoMirror == {<<FALSE, "none">>}
Mirrors == NoMirror \cup {<<TRUE, remote>> : remote \in {"ok", "fail", "throw"}}

\* the session takes a new order row only below the cap
Below(n) == Len(sess.orders) < n
CanOrder == Below(MaxOrders)

\* the session holds nothing uncommitted: a caller that opens its session for
\* one call (the request scope, the scheduler) starts from such a session
Clean == sess = db

\* a call on the open session: the executor commits when it returns and
\* leaves the session as it is when it raises
Finish(r, call) ==
    /\ sess' = r.L
    /\ db' = IF r.err = "" THEN r.L ELSE db
    /\ last' = call
    /\ UNCHANGED <<now, inflight, sched>>

InitWith(cash) ==
    /\ \E c \in cash : db = NewLedger(c)
    /\ sess = db
    /\ now = 0
    /\ last = NoCall
    /\ inflight = Quiet
    /\ sched = NewTaskScheduler

Init == InitWith(SpotInitialCash \cup CryptoInitialCash)

\* ------------------------------------------------------------------------
\* Actions
\* ------------------------------------------------------------------------
PlaceAstockOf(n, pricing, quantities, mirrors) ==
    /\ Below(n) /\ Clean
    /\ \E a \in Accounts, side \in SpotSides, pr \in pricing, quantity \in quantities, m \in mirrors :
        LET r == place_and_execute_astock(sess, a, "600000", side, pr[1], pr[2], quantity, pr[3], m[1], m[2])
            r0 == place_and_execute_astock(sess, a, "600000", side, pr[1], pr[2], quantity, pr[3], FALSE, "none")
        IN Finish(r, [Call("astock", a, "600000", "ASTOCK", side, pr[1], quantity, 1,
                           AstockExecPrice(pr[1], pr[2], pr[3]), r.err)
                         EXCEPT !.oracle = pr[3], !.use_platform = m[1], !.remote = m[2],
                                !.local = IF m[1] THEN r0 ELSE << >>])

PlaceAstock == PlaceAstockOf(MaxOrders, SpotPricing, SpotQuantities, NoMirror)

PlaceMt5Of(n, pricing, quantities, mirrors) ==
    /\ Below(n) /\ Clean
    /\ \E a \in Accounts, side \in SpotSides, pr \in pricing, quantity \in quantities, m \in mirrors :
        LET r == place_and_execute_mt5_order(sess, a, "600000", side, pr[1], pr[2], quantity, pr[3], m[1], m[2])
            r0 == place_and_execute_mt5_order(sess, a, "600000", side, pr[1], pr[2], quantity, pr[3], FALSE, "none")
        IN Finish(r, [Call("mt5", a, "600000", "CN", side, pr[1], quantity, 1,
                           OrPriceExecPrice(pr[1], pr[2], pr[3]), r.err)
                         EXCEPT !.oracle = pr[3], !.use_platform = m[1], !.remote = m[2],
                                !.local = IF m[1] THEN r0 ELSE << >>])

PlaceMt5 == PlaceMt5Of(MaxOrders, SpotPricing, SpotQuantities, NoMirror)

PlaceIbkrOf(n, pricing, quantities, mirrors) ==
    /\ Below(n)
    /\ \E a \in Accounts, side \in SpotSides, pr \in pricing, quantity \in quantities, m \in mirrors :
        LET r == place_and_execute_ibkr_order(sess, a, "AAPL", side, pr[1], pr[2], quantity, pr[3], m[1], m[2])
            r0 == place_and_execute_ibkr_order(sess, a, "AAPL", side, pr[1], pr[2], quantity, pr[3], FALSE, "none")
        IN Finish(r, [Call("ibkr", a, "AAPL", "US", side, pr[1], quantity, 1,
                           OrPriceExecPrice(pr[1], pr[2], pr[3]), r.err)
                         EXCEPT !.oracle = pr[3], !.use_platform = m[1], !.remote = m[2],
                                !.local = IF m[1] THEN r0 ELSE << >>])

PlaceIbkr == PlaceIbkrOf(MaxOrders, SpotPricing, SpotQuantities, NoMirror)

PlaceFutuOf(n, pricing, quantities, mirrors) ==
    /\ Below(n)
    /\ \E a \in Accounts, symbol \in FutuSymbols, side \in SpotSides, pr \in pricing,
          quantity \in quantities, m \in mirrors :
        LET r == place_and_execute_futu_order(sess, a, symbol, side, pr[1], pr[2], quantity, pr[3], m[1], m[2])
            r0 == place_and_execute_futu_order(sess, a, symbol, side, pr[1], pr[2], quantity, pr[3], FALSE, "none")
        IN Finish(r, [Call("futu", a, symbol, FutuMarket(symbol), side, pr[1], quantity, 1,
                           OrPriceExecPrice(pr[1], pr[2], pr[3]), r.err)
                         EXCEPT !.oracle = pr[3], !.use_platform = m[1], !.remote = m[2],
                                !.local = IF m[1] THEN r0 ELSE << >>])

PlaceFutu == PlaceFutuOf(MaxOrders, SpotPricing, SpotQuantities, NoMirror)

PlaceCryptoOf(n, orders) ==
    /\ Below(n) /\ Clean
    /\ \E a \in Accounts, symbol \in CryptoSymbols, o \in orders :
        LET r == place_and_execute_crypto(sess, a, symbol, o[1], o[2], o[3], o[5], o[6], o[4], now)
        IN Finish(r, [Call("crypto", a, symbol, "CRYPTO", o[1], o[2], o[5], o[6],
                           CryptoExecPrice(o[2], o[3], o[4]), r.err)
                         EXCEPT !.oracle = o[4]])

PlaceCrypto == PlaceCryptoOf(MaxOrders, CryptoOrders)

\* db.close() of the caller (the finally blocks of the example scripts and of
\* the request scope): uncommitted changes of the session are discarded
CloseSession ==
    /\ sess # db
    /\ sess' = db
    /\ last' = NoCall
    /\ UNCHANGED <<db, now, inflight, sched>>

\* services.mt5_ai_trader.run_mt5_ai_trading for the account: the decision is
\* executed, its exception is swallowed, and the session is committed
RunMt5AiTrading ==
    /\ CanOrder /\ Clean
    /\ \E a \in Accounts, operation \in AiOperations, target_portion \in AiPortions,
          p1 \in AiQuotes, p2 \in AiQuotes, posKey \in {<<"600000", "ASTOCK">>, <<"600000", "CN">>} :
        LET portfolio == get_astock_portfolio(sess, a, "600000", p1)
            r == execute_astock_ai_decision(sess, a, operation, "600000", target_portion,
                                            portfolio, p1, p2, posKey)
        IN
        \* query(Position).filter(account, symbol).first() returns an existing row
        /\ (sess.pos[a][posKey].present
              \/ \A k \in {<<"600000", "ASTOCK">>, <<"600000", "CN">>} : ~sess.pos[a][k].present)
        /\ sess' = r.L
        /\ db' = r.L
        /\ last' = Call("run_mt5_ai_trading", a, "600000", "CN", operation, "MARKET",
                        target_portion, 1, p2, r.err)
            /\ UNCHANGED <<now, inflight, sched>>

\* TaskScheduler._check_margin_levels: one sweep, in its own session on the
\* committed ledger, committed at the end
CheckMarginLevelsOf(n) ==
    /\ Below(n) /\ Clean
    /\ \E prices \in [CryptoSymbols -> SweepPrices] :
       \E a \in Accounts :
       \E syms \in Orderings(LeveragedPositions(db, a)) :
        /\ db' = _check_account_margin(db, a, syms, prices, now)
        /\ sess' = db'
        /\ last' = [NoCall EXCEPT !.op = "sweep", !.a = a, !.pre = db, !.preDb = db,
                                  !.t = now, !.prices = prices, !.syms = syms]
            /\ UNCHANGED <<now, inflight, sched>>

CheckMarginLevels == CheckMarginLevelsOf(MaxOrders)

\* time passes
Tick ==
    /\ now < MaxTicks * HOURS_PER_TICK
    /\ now' = now + HOURS_PER_TICK
    /\ last' = NoCall
    /\ UNCHANGED <<db, sess, inflight, sched>>

Next ==
    \/ PlaceAstock
    \/ PlaceMt5
    \/ PlaceIbkr
    \/ PlaceFutu
    \/ PlaceCrypto
    \/ CloseSession
    \/ RunMt5AiTrading
    \/ CheckMarginLevels
    \/ Tick

Spec == Init /\ [][Next]_vars

\* the spot executors alone, called from the routes and the example scripts
NextSpot ==
    \/ PlaceAstock
    \/ PlaceMt5
    \/ PlaceIbkr
    \/ PlaceFutu
    \/ CloseSession

InitSpot == InitWith(SpotInitialCash)

SpecSpot == InitSpot /\ [][NextSpot]_vars

\* the A-share executors with the AI trading cycle as a second caller
NextAi ==
    \/ PlaceAstock
    \/ PlaceMt5
    \/ CloseSession
    \/ RunMt5AiTrading

SpecAi == InitSpot /\ [][NextAi]_vars

\* the leveraged crypto market and its margin monitor alone
NextCrypto ==
    \/ PlaceCrypto
    \/ CloseSession
    \/ CheckMarginLevels
    \/ Tick

InitCrypto == InitWith(CryptoInitialCash)

SpecCrypto == InitCrypto /\ [][NextCrypto]_vars

\* the spot executors over the quantities and quotes their validation has to
\* decide, until MaxSubmitted order rows exist
SubmitAstock == PlaceAstockOf(MaxSubmitted, AnyPricing, AnyQuantities, NoMirror)
SubmitMt5 == PlaceMt5Of(MaxSubmitted, AnyPricing, AnyQuantities, NoMirror)
SubmitIbkr == PlaceIbkrOf(MaxSubmitted, AnyPricing, AnyQuantities, NoMirror)
SubmitFutu == PlaceFutuOf(MaxSubmitted, AnyPricing, AnyQuantities, NoMirror)

NextValidation ==
    \/ SubmitAstock
    \/ SubmitMt5
    \/ SubmitIbkr
    \/ SubmitFutu
    \/ CloseSession

SpecValidation == InitSpot /\ [][NextValidation]_vars

\* short runs of the A-share and crypto executors on one account, the crypto
\* orders with every leverage, valid or not
LeverageOrders ==
    CoreOrders \cup
    {<<side, "LIMIT", 60000, NoPrice, 1, lev>> :
        side \in {"LONG", "SHORT"}, lev \in {0, CRYPTO_MAX_LEVERAGE, CRYPTO_MAX_LEVERAGE + 1}}

LeverCrypto == PlaceCryptoOf(MaxShortRun, LeverageOrders)
LeverAstock == PlaceAstockOf(MaxShortRun, SpotPricing, SpotQuantities, NoMirror)
LeverFutu == PlaceFutuOf(MaxShortRun, SpotPricing, SpotQuantities, NoMirror)

NextLeverage ==
    \/ LeverCrypto
    \/ LeverAstock
    \/ LeverFutu
    \/ CloseSession

SpecLeverage == Init /\ [][NextLeverage]_vars

\* short runs of the spot executors with and without the platform mirror
MirrorAstock == PlaceAstockOf(MaxShortRun, SpotPricing, SpotQuantities, Mirrors)
MirrorMt5 == PlaceMt5Of(MaxShortRun, SpotPricing, SpotQuantities, Mirrors)
MirrorIbkr == PlaceIbkrOf(MaxShortRun, SpotPricing, SpotQuantities, Mirrors)
MirrorFutu == PlaceFutuOf(MaxShortRun, SpotPricing, SpotQuantities, Mirrors)

NextMirror ==
    \/ MirrorAstock
    \/ MirrorMt5
    \/ MirrorIbkr
    \/ MirrorFutu
    \/ CloseSession

SpecMirror == InitSpot /\ [][NextMirror]_vars

\* short runs of the crypto executor and the margin monitor: the sweep may
\* follow the last order of the run
TradeCrypto == PlaceCryptoOf(MaxShortRun, CoreOrders)
SweepMargin == CheckMarginLevelsOf(MaxShortRun + 1)

NextMargin ==
    \/ TradeCrypto
    \/ CloseSession
    \/ SweepMargin
    \/ Tick

SpecMargin == InitCrypto /\ [][NextMargin]_vars

\* ------------------------------------------------------------------------
\* Calls that run at the same time
\* ------------------------------------------------------------------------
\* Every caller opens a session of its own (SessionLocal() in get_db, in
\* _check_margin_levels, in the scheduler jobs).  A session loads the Account
\* and Position rows once and keeps the loaded attributes until it commits;
\* the executors compute the new values from the loaded ones and assign them
\* ("account.current_cash = float(available_cash - total_cost)"), and the
\* commit writes the assigned attributes.  No query uses with_for_update and
\* no lock is taken around an execution.

\* (market, symbol, side, order_type, price, quantity, leverage)
ConcurrentOrders ==
    {<<"ASTOCK", "600000", "BUY", "LIMIT", 1000, 100, 1>>,
     <<"ASTOCK", "600000", "SELL", "LIMIT", 1000, 100, 1>>,
     <<"CRYPTO", "ETH", "LONG", "LIMIT", 60000, 1, 3>>,
     <<"CRYPTO", "ETH", "SELL", "LIMIT", 60000, 1, 1>>,
     <<"CRYPTO", "ETH", "SELL", "LIMIT", 60000, 2, 1>>,
     <<"CRYPTO", "ETH", "LONG", "LIMIT", 60000, 1, 1>>}

\* the executor call of a request on the ledger L its session holds
ExecuteOrder(L, a, o, t) ==
    IF o[1] = "ASTOCK"
    THEN place_and_execute_astock(L, a, o[2], o[3], o[4], o[5], o[6], NoPrice, FALSE, "none")
    ELSE place_and_execute_crypto(L, a, o[2], o[3], o[4], o[5], o[6], o[7], NoPrice, t)

\* a request from its own session on the committed ledger L: the executor
\* commits when it returns, the session is discarded when it raises
RunOrder(L, a, o, t) ==
    LET r == ExecuteOrder(L, a, o, t) IN IF r.err = "" THEN r.L ELSE L

\* the ledgers the concurrent calls start from: a funded account with no
\* position, one that holds 200 shares, and two that hold a leveraged LONG
\* (with little and with ample cash left)
ConcurrentBases ==
    {NewLedger(10000000),
     RunOrder(NewLedger(10000000), "acc1", <<"ASTOCK", "600000", "BUY", "LIMIT", 1000, 200, 1>>, 0),
     RunOrder(NewLedger(90000), "acc1", <<"CRYPTO", "ETH", "LONG", "LIMIT", 120000, 2, 3>>, 0),
     RunOrder(NewLedger(10000000), "acc1", <<"CRYPTO", "ETH", "LONG", "LIMIT", 120000, 2, 3>>, 0)}

\* UPDATE of a row: the attributes the session assigned a new value to are
\* written, the others keep what the database holds
UpdateRow(stored, loaded, assigned) ==
    [f \in DOMAIN stored |-> IF assigned[f] # loaded[f] THEN assigned[f] ELSE stored[f]]

\* the Position rows the session inserted although the database holds a row
\* for the key by now
SecondRows(D, V, R) ==
    {ak \in Accounts \X PosKeys :
        /\ ~V.pos[ak[1]][ak[2]].present /\ R.pos[ak[1]][ak[2]].present
        /\ D.pos[ak[1]][ak[2]].present}

\* the rows of the session's new orders and trades as the database numbers them
ShiftOrders(orders, from, shift) ==
    [i \in 1..(Len(orders) - from) |->
        [orders[from + i] EXCEPT !.order_no = @ + shift]]
ShiftTrades(trades, from, shift) ==
    [i \in 1..(Len(trades) - from) |->
        [trades[from + i] EXCEPT !.order_id = @ + shift]]

\* db.commit() of a session that loaded its rows from V and holds R, on the
\* database D: changed attributes of loaded rows are updated, new rows are
\* inserted.  first tells which row query(...).first() finds afterwards for
\* a key that has two rows.
WriteBack(D, V, R, first) ==
    [acct |-> [a \in Accounts |-> UpdateRow(D.acct[a], V.acct[a], R.acct[a])],
     pos |-> [a \in Accounts |-> [k \in PosKeys |->
                IF R.pos[a][k] = V.pos[a][k] THEN D.pos[a][k]
                ELSE IF V.pos[a][k].present
                     THEN UpdateRow(D.pos[a][k], V.pos[a][k], R.pos[a][k])
                ELSE IF D.pos[a][k].present /\ first = "stored" THEN D.pos[a][k]
                ELSE R.pos[a][k]]],
     orders |-> D.orders \o ShiftOrders(R.orders, Len(V.orders), Len(D.orders) - Len(V.orders)),
     trades |-> D.trades \o ShiftTrades(R.trades, Len(V.trades), Len(D.orders) - Len(V.orders))]

\* the choices of first that a commit leaves open
Firsts(D, V, R) == IF SecondRows(D, V, R) = {} THEN {"own"} ELSE {"stored", "own"}

\* a request starts: its session loads the account and the position
BeginOrder ==
    \E w \in Workers, o \in ConcurrentOrders :
        /\ inflight.w[w].stage = "idle"
        /\ inflight' = [inflight EXCEPT !.w[w] =
                [Idle EXCEPT !.stage = "read", !.kind = "order", !.view = db, !.o = o]]
        /\ UNCHANGED <<db, sess, now, last, sched>>

\* the request executes on what its session loaded and commits
CommitOrder ==
    \E w \in Workers :
        LET me == inflight.w[w]
            r == ExecuteOrder(me.view, "acc1", me.o, now)
        IN
        /\ me.stage = "read" /\ me.kind = "order"
        /\ \E first \in Firsts(db, me.view, r.L) :
             db' = IF r.err = "" THEN WriteBack(db, me.view, r.L, first) ELSE db
        /\ sess' = db'
        /\ inflight' = [inflight EXCEPT !.w[w].stage = "done", !.w[w].err = r.err,
                            !.w[w].second = IF r.err = "" THEN SecondRows(db, me.view, r.L) ELSE {}]
        /\ UNCHANGED <<now, last, sched>>

\* a margin sweep starts: its session loads the account and its leveraged
\* positions (_check_margin_levels, _check_account_margin)
BeginSweep ==
    \E w \in Workers, prices \in [CryptoSymbols -> SweepPrices] :
    \E syms \in Orderings(LeveragedPositions(db, "acc1")) :
        /\ inflight.w[w].stage = "idle"
        /\ syms # << >>
        /\ inflight' = [inflight EXCEPT !.w[w] =
                [Idle EXCEPT !.stage = "read", !.kind = "sweep", !.view = db,
                             !.prices = prices, !.syms = syms]]
        /\ UNCHANGED <<db, sess, now, last, sched>>

\* the sweep decides and liquidates on what its session loaded, and commits
CommitSweep ==
    \E w \in Workers :
        LET me == inflight.w[w]
            R == _check_account_margin(me.view, "acc1", me.syms, me.prices, now)
        IN
        /\ me.stage = "read" /\ me.kind = "sweep"
        /\ db' = WriteBack(db, me.view, R, "own")
        /\ sess' = db'
        /\ inflight' = [inflight EXCEPT !.w[w].stage = "done"]
        /\ last' = [NoCall EXCEPT !.op = "sweep_commit", !.a = "acc1", !.pre = me.view,
                                  !.preDb = db, !.t = now, !.prices = me.prices,
                                  !.syms = me.syms]
        /\ UNCHANGED <<now, sched>>

NextConcurrent ==
    \/ BeginOrder
    \/ CommitOrder
    \/ BeginSweep
    \/ CommitSweep

InitConcurrent ==
    /\ db \in ConcurrentBases
    /\ sess = db
    /\ now = 0
    /\ last = NoCall
    /\ inflight = [Quiet EXCEPT !.base = db]
    /\ sched = NewTaskScheduler

SpecConcurrent == InitConcurrent /\ [][NextConcurrent]_vars

\* ------------------------------------------------------------------------
\* Task scheduler
\* ------------------------------------------------------------------------
SnapshotAccounts == {1, 2}
Intervals == {5, 10}

\* f"snapshot_account_{account_id}"
SnapshotJobId(account_id) ==
    IF account_id = 1 THEN "snapshot_account_1" ELSE "snapshot_account_2"

\* the ids remove_task is called with: the jobs above and one that the
\* scheduler never holds here
TaskIds == {SnapshotJobId(a) : a \in SnapshotAccounts} \cup {"margin_monitor", "ai_trade"}

\* BackgroundScheduler.get_job(job_id): the positions of the jobs with the id
get_job(jobs, job_id) == {i \in 1..Len(jobs) : jobs[i].id = job_id}

\* BackgroundScheduler.add_job(..., id=job_id, replace_existing=...): a job
\* with the id is replaced when replace_existing, else the call fails
add_job(jobs, job, replace_existing) ==
    IF get_job(jobs, job.id) = {} THEN Append(jobs, job)
    ELSE IF replace_existing
         THEN [i \in 1..Len(jobs) |-> IF jobs[i].id = job.id THEN job ELSE jobs[i]]
    ELSE jobs

\* BackgroundScheduler.remove_job(job_id): JobLookupError when there is none
remove_job(jobs, job_id) ==
    IF get_job(jobs, job_id) = {} THEN [jobs |-> jobs, err |-> "JobLookupError"]
    ELSE [jobs |-> SelectSeq(jobs, LAMBDA j : j.id # job_id), err |-> ""]

\* TaskScheduler.is_running
is_running(S) == S._started /\ S.scheduler = "running"

\* TaskScheduler.start: a new BackgroundScheduler, started
start(S) ==
    IF ~S._started
    THEN [S EXCEPT !.scheduler = "running", !._started = TRUE, !.jobs = << >>]
    ELSE S

\* an add that never finds the job
AlreadyRegistered_Never(jobs, job_id) == FALSE

\* "if self.scheduler.get_job(job_id): return"
AlreadyRegistered(jobs, job_id) == get_job(jobs, job_id) # {}

\* the body shared by add_account_snapshot_task and add_margin_monitor_task
AddOnce(S, job_id, func, interval_seconds) ==
    LET S1 == IF ~is_running(S) THEN start(S) ELSE S IN
    IF AlreadyRegistered(S1.jobs, job_id) THEN S1
    ELSE [S1 EXCEPT !.jobs = add_job(@, [id |-> job_id, func |-> func,
                                         seconds |-> interval_seconds], TRUE)]

add_account_snapshot_task(S, account_id, interval_seconds) ==
    AddOnce(S, SnapshotJobId(account_id), "_execute_account_snapshot", interval_seconds)

add_margin_monitor_task(S, interval_seconds) ==
    AddOnce(S, "margin_monitor", "_check_margin_levels", interval_seconds)

\* TaskScheduler.remove_task: nothing without a scheduler; the error of
\* remove_job is logged
remove_task(S, task_id) ==
    IF S.scheduler = "None" THEN [S |-> S, raised |-> FALSE]
    ELSE [S |-> [S EXCEPT !.jobs = remove_job(@, task_id).jobs], raised |-> FALSE]

\* TaskScheduler.remove_account_snapshot_task
remove_account_snapshot_task(S, account_id) == remove_task(S, SnapshotJobId(account_id))

\* the body of the coroutine _execute_account_snapshot: an account that has
\* no active connection has its snapshot job removed
_execute_account_snapshot(S, account_id, connected) ==
    IF ~connected THEN remove_account_snapshot_task(S, account_id).S ELSE S

\* the BackgroundScheduler runs a job in its thread pool by calling
\* job.func(*job.args).  _execute_account_snapshot is declared "async def":
\* the call returns a coroutine object that nothing awaits, and its body
\* does not run.
run_job(S, func, awaited) == IF func = "_execute_account_snapshot" THEN S ELSE awaited

\* the task scheduler after a call, with the record of the call
Called(S, op, id, interval, raised, connected) ==
    [S EXCEPT !.call = [op |-> op, id |-> id, interval |-> interval,
                        pre |-> sched.jobs, raised |-> raised, connected |-> connected]]

Start ==
    /\ sched' = Called(start(sched), "start", "", 0, FALSE, TRUE)
    /\ UNCHANGED <<db, sess, now, last, inflight>>

AddAccountSnapshotTask ==
    \E a \in SnapshotAccounts, i \in Intervals :
        /\ sched' = Called(add_account_snapshot_task(sched, a, i), "add", SnapshotJobId(a), i, FALSE, TRUE)
        /\ UNCHANGED <<db, sess, now, last, inflight>>

AddMarginMonitorTask ==
    \E i \in Intervals :
        /\ sched' = Called(add_margin_monitor_task(sched, i), "add", "margin_monitor", i, FALSE, TRUE)
        /\ UNCHANGED <<db, sess, now, last, inflight>>

RemoveAccountSnapshotTask ==
    \E a \in SnapshotAccounts :
        LET r == remove_account_snapshot_task(sched, a) IN
        /\ sched' = Called(r.S, "remove", SnapshotJobId(a), 0, r.raised, TRUE)
        /\ UNCHANGED <<db, sess, now, last, inflight>>

RemoveTask ==
    \E task_id \in TaskIds :
        LET r == remove_task(sched, task_id) IN
        /\ sched' = Called(r.S, "remove", task_id, 0, r.raised, TRUE)
        /\ UNCHANGED <<db, sess, now, last, inflight>>

\* the interval of a registered snapshot job elapses; the account has an
\* active connection or has none
SnapshotTick ==
    \E a \in SnapshotAccounts, connected \in BOOLEAN :
        /\ is_running(sched)
        /\ get_job(sched.jobs, SnapshotJobId(a)) # {}
        /\ sched' = Called(run_job(sched, "_execute_account_snapshot",
                                   _execute_account_snapshot(sched, a, connected)),
                           "tick", SnapshotJobId(a), 0, FALSE, connected)
        /\ UNCHANGED <<db, sess, now, last, inflight>>

NextScheduler ==
    \/ Start
    \/ AddAccountSnapshotTask
    \/ AddMarginMonitorTask
    \/ RemoveAccountSnapshotTask
    \/ RemoveTask
    \/ SnapshotTick

SpecScheduler == InitSpot /\ [][NextScheduler]_vars

\* ------------------------------------------------------------------------
\* Valuation
\* ------------------------------------------------------------------------
\* the quotes of the oracle at a valuation: none, zero, or a price
ValuationPrices == {NoPrice, 0, 60000, 120000}

\* get_last_price(symbol, market) under the quotes of the crypto symbols
Quote(prices, k) == IF k[2] = "CRYPTO" THEN prices[k[1]] ELSE NoPrice

\* the value both valuations give a position once they have its price:
\* "leverage = p.leverage if p.leverage and p.leverage > 0 else 1", then
\* margin plus unrealized P&L when leverage > 1, else the market value
PositionEquity(p, price) ==
    LET leverage == IF p.leverage > 0 THEN p.leverage ELSE 1
        market_value == p.quantity * price
    IN IF leverage > 1
       THEN (market_value \div leverage) + p.quantity * (price - p.avg_cost)
       ELSE market_value

\* asset_calculator.calc_positions_market_value over the Position rows keys:
\* Decimal(str(None)) raises and the position is skipped
RECURSIVE calc_positions_market_value(_, _, _, _)
calc_positions_market_value(L, a, keys, prices) ==
    IF keys = {} THEN 0
    ELSE LET k == CHOOSE x \in keys : TRUE
             p == L.pos[a][k]
             price == Quote(prices, k)
         IN (IF ~p.present \/ price = NoPrice THEN 0 ELSE PositionEquity(p, price))
            + calc_positions_market_value(L, a, keys \ {k}, prices)

\* _create_account_timeline, the positions value of the last point:
\* "if pos.quantity > 0", "if price and price > 0"
RECURSIVE LastPointPositionsValue(_, _, _, _)
LastPointPositionsValue(L, a, keys, prices) ==
    IF keys = {} THEN 0
    ELSE LET k == CHOOSE x \in keys : TRUE
             pos == L.pos[a][k]
             price == Quote(prices, k)
         IN (IF pos.present /\ pos.quantity > 0 /\ price # NoPrice /\ price > 0
             THEN PositionEquity(pos, price) ELSE 0)
            + LastPointPositionsValue(L, a, keys \ {k}, prices)

\* the account is valued, by calc_positions_market_value and as the last
\* point of its asset curve, under the same quotes
Valuate ==
    /\ Clean
    /\ \E a \in Accounts, prices \in [CryptoSymbols -> ValuationPrices] :
         last' = [NoCall EXCEPT !.op = "valuation", !.a = a, !.pre = db, !.preDb = db,
                    !.t = now, !.prices = prices,
                    !.market_value = calc_positions_market_value(db, a, PosKeys, prices),
                    !.positions_value = LastPointPositionsValue(db, a, PosKeys, prices),
                    !.upto = Len(db.trades),
                    !.cash = db.acct[a].current_cash,
                    !.total_assets = db.acct[a].current_cash
                                        + LastPointPositionsValue(db, a, PosKeys, prices)]
    /\ UNCHANGED <<db, sess, now, inflight, sched>>

\* asset_calculator.calc_positions_value: sum(quantity * price * leverage),
\* a position is skipped when Decimal(str(None)) raises
RECURSIVE calc_positions_value(_, _, _, _)
calc_positions_value(L, a, keys, prices) ==
    IF keys = {} THEN 0
    ELSE LET k == CHOOSE x \in keys : TRUE
             p == L.pos[a][k]
             price == Quote(prices, k)
         IN (IF ~p.present \/ price = NoPrice THEN 0 ELSE price * p.quantity * p.leverage)
            + calc_positions_value(L, a, keys \ {k}, prices)

\* ai_decision_service._get_portfolio_data: cash and total_assets
_get_portfolio_data(L, a, prices) ==
    [cash |-> L.acct[a].current_cash,
     total_assets |-> L.acct[a].current_cash + calc_positions_value(L, a, PosKeys, prices)]

\* _create_account_timeline, the trades up to a timestamp: trade_amount =
\* price * quantity + commission + interest_charged, taken from the cash for
\* BUY and LONG and added to it for every other side.  The trades are in
\* trade_time order; the timestamp lies after the first n of them.
RECURSIVE cash_change(_, _, _)
cash_change(trades, a, n) ==
    IF n = 0 THEN 0
    ELSE LET trade == trades[n]
             trade_amount == trade.price * trade.quantity + trade.commission
                                + trade.interest_charged
         IN cash_change(trades, a, n - 1)
            + (IF trade.account_id # a THEN 0
               ELSE IF trade.side \in {"BUY", "LONG"} THEN - trade_amount
               ELSE trade_amount)

\* position_quantities[key] after the first n trades
RECURSIVE position_quantities(_, _, _, _)
position_quantities(trades, a, k, n) ==
    IF n = 0 THEN 0
    ELSE LET trade == trades[n] IN
         position_quantities(trades, a, k, n - 1)
         + (IF trade.account_id # a \/ <<trade.symbol, trade.market>> # k THEN 0
            ELSE IF trade.side \in {"BUY", "LONG"} THEN trade.quantity
            ELSE - trade.quantity)

\* positions_value of a historical point: price * quantity for the keys with
\* a positive replayed quantity and a kline close
RECURSIVE HistoricalPositionsValue(_, _, _, _, _)
HistoricalPositionsValue(trades, a, keys, n, prices) ==
    IF keys = {} THEN 0
    ELSE LET k == CHOOSE x \in keys : TRUE
             quantity == position_quantities(trades, a, k, n)
             price == Quote(prices, k)
         IN (IF quantity > 0 /\ price # NoPrice /\ price # 0 THEN price * quantity ELSE 0)
            + HistoricalPositionsValue(trades, a, keys \ {k}, n, prices)

\* _create_account_timeline, a point that is not the last one, at a
\* timestamp after the first n trades
HistoricalPoint(L, a, n, prices) ==
    LET current_cash == L.acct[a].initial_capital + cash_change(L.trades, a, n)
        positions_value == HistoricalPositionsValue(L.trades, a, PosKeys, n, prices)
    IN [cash |-> current_cash, positions_value |-> positions_value,
        total_assets |-> current_cash + positions_value]

\* the quotes and kline closes when a portfolio or a curve point is computed
CurvePrices == {NoPrice, 60000}

\* the AI decision service builds the portfolio of the account
GetPortfolioData ==
    /\ Clean
    /\ \E a \in Accounts, prices \in [CryptoSymbols -> CurvePrices] :
         LET portfolio == _get_portfolio_data(db, a, prices) IN
         last' = [NoCall EXCEPT !.op = "portfolio", !.a = a, !.pre = db, !.preDb = db,
                    !.t = now, !.prices = prices, !.upto = Len(db.trades),
                    !.cash = portfolio.cash, !.total_assets = portfolio.total_assets]
    /\ UNCHANGED <<db, sess, now, inflight, sched>>

\* a point of the asset curve that is not the last one
CurvePoint ==
    /\ Clean
    /\ \E a \in Accounts, prices \in [CryptoSymbols -> CurvePrices] :
       \E n \in 0..Len(db.trades) :
         LET point == HistoricalPoint(db, a, n, prices) IN
         /\ Len(db.trades) > 0
         /\ last' = [NoCall EXCEPT !.op = "curve", !.a = a, !.pre = db, !.preDb = db,
                    !.t = now, !.prices = prices, !.upto = n,
                    !.cash = point.cash, !.positions_value = point.positions_value,
                    !.total_assets = point.total_assets]
    /\ UNCHANGED <<db, sess, now, inflight, sched>>

NextValuation ==
    \/ TradeCrypto
    \/ CloseSession
    \/ Valuate

SpecValuation == InitCrypto /\ [][NextValuation]_vars

\* spot and crypto trades, and the figures computed from the ledger and
\* from the trade history
TradeAstock == PlaceAstockOf(MaxShortRun, SpotPricing, SpotQuantities, NoMirror)

NextCurve ==
    \/ TradeAstock
    \/ TradeCrypto
    \/ CloseSession
    \/ GetPortfolioData
    \/ CurvePoint

SpecCurve == Init /\ [][NextCurve]_vars

\* ------------------------------------------------------------------------
\* Properties
\* ------------------------------------------------------------------------
ExecutorOps == {"astock", "mt5", "ibkr", "futu", "crypto"}
SpotMarkets == {"ASTOCK", "CN", "US", "HK"}

\* the latest call filled an order: the order row it added
Filled == last.op # "none" /\ last.op # "sweep" /\ last.err = ""
              /\ Len(sess.orders) = Len(last.pre.orders) + 1
FilledOrder == sess.orders[Len(sess.orders)]
FilledTrade == sess.trades[Len(sess.trades)]

\* C1: after a call that raises, the committed ledger (orders, current_cash,
\* margin_used, positions, accumulated_interest, trades) equals the committed
\* ledger before the call, also when the caller catches the exception and
\* commits the session afterwards.
C1_RaiseLeavesLedger == last.err # "" => db = last.preDb

\* C2: every successful BUY on a spot market decreases current_cash by exactly
\* notional + fees, increases the position quantity by exactly the filled
\* quantity, and sets avg_cost to (old_quantity * old_avg_cost + notional) /
\* new_quantity, the fill price when the position was absent or flat.
C2_SpotBuy ==
    (Filled /\ FilledOrder.side = "BUY" /\ FilledOrder.market \in SpotMarkets) =>
        LET o == FilledOrder
            a == o.account_id
            notional == o.price * o.quantity
            fees == FilledTrade.commission + FilledTrade.taker_fee
            old == last.pre.pos[a][<<o.symbol, o.market>>]
            new == sess.pos[a][<<o.symbol, o.market>>]
        IN /\ sess.acct[a].current_cash = last.pre.acct[a].current_cash - notional - fees
           /\ new.quantity = old.quantity + o.filled_quantity
           /\ new.avg_cost = (old.quantity * old.avg_cost + notional) \div new.quantity
           /\ (old.quantity = 0 => new.avg_cost = o.price)
           /\ db = sess

\* a BUY filled on a position held at another cost, and a BUY filled on a
\* position row that was flat
C2_Witness ==
    /\ Filled /\ FilledOrder.side = "BUY" /\ FilledOrder.market \in SpotMarkets
    /\ LET old == last.pre.pos[FilledOrder.account_id][<<FilledOrder.symbol, FilledOrder.market>>]
       IN old.quantity > 0 /\ old.avg_cost # FilledOrder.price

C2_WitnessFlat ==
    /\ Filled /\ FilledOrder.side = "BUY" /\ FilledOrder.market \in SpotMarkets
    /\ LET old == last.pre.pos[FilledOrder.account_id][<<FilledOrder.symbol, FilledOrder.market>>]
       IN old.present /\ old.quantity = 0

\* C3: every successful SELL on a spot market increases current_cash by exactly
\* notional - fees and decreases quantity and available_quantity by exactly the
\* sold quantity, which did not exceed the available quantity.
C3_SpotSell ==
    (Filled /\ FilledOrder.side = "SELL" /\ FilledOrder.market \in SpotMarkets) =>
        LET o == FilledOrder
            a == o.account_id
            notional == o.price * o.quantity
            fees == FilledTrade.commission + FilledTrade.taker_fee
            old == last.pre.pos[a][<<o.symbol, o.market>>]
            new == sess.pos[a][<<o.symbol, o.market>>]
        IN /\ o.quantity <= old.available_quantity
           /\ sess.acct[a].current_cash = last.pre.acct[a].current_cash + notional - fees
           /\ new.quantity = old.quantity - o.quantity
           /\ new.available_quantity = old.available_quantity - o.quantity
           /\ db = sess

\* a SELL of a part of a position filled
C3_Witness ==
    /\ Filled /\ FilledOrder.side = "SELL" /\ FilledOrder.market \in SpotMarkets
    /\ sess.pos[FilledOrder.account_id][<<FilledOrder.symbol, FilledOrder.market>>].quantity > 0

\* the position the latest executor call addressed, before and after the call
CalledKey == <<last.symbol, last.market>>
PosBefore == last.pre.pos[last.a][CalledKey]
PosAfter == sess.pos[last.a][CalledKey]
IsClosingCall ==
    /\ last.op \in ExecutorOps
    /\ IF last.op = "crypto" THEN last.side \in {"BUY", "SELL"} ELSE last.side = "SELL"

\* C4: every closing order (spot SELL, crypto BUY/SELL) whose quantity exceeds
\* the position's available_quantity, or for which no position exists, is
\* rejected, and current_cash, margin_used and the position are left unchanged,
\* also after a same-direction add to a leveraged position.
C4_CloseBeyondAvailableRejected ==
    (IsClosingCall /\ (~PosBefore.present \/ last.quantity > PosBefore.available_quantity)) =>
        /\ last.err # ""
        /\ sess.acct[last.a] = last.pre.acct[last.a]
        /\ PosAfter = PosBefore

\* C5: current_cash >= 0 after every successful execution, for every executor
\* and side, leveraged closes at a loss included.
C5_CashNonNegative ==
    Filled => \A a \in Accounts : sess.acct[a].current_cash >= 0 /\ db.acct[a].current_cash >= 0

\* C6: margin_used >= 0 in every reachable state, after any sequence of
\* leveraged opens, same-direction adds with another leverage, partial closes
\* and full closes.
C6_MarginNonNegative ==
    \A a \in Accounts : sess.acct[a].margin_used >= 0 /\ db.acct[a].margin_used >= 0

\* an order that passes validation and can pay its margin and fee: what is
\* left to reject it is the position it meets
OpensAgainstOpposite ==
    /\ last.op = "crypto" /\ last.side \in {"LONG", "SHORT"}
    /\ PosBefore.present /\ PosBefore.quantity > 0
    /\ PosBefore.side = (IF last.side = "LONG" THEN "SHORT" ELSE "LONG")
    /\ last.err \notin {"InvalidLeverage", "InvalidQuantity", "PriceUnavailable", "InsufficientFunds"}

\* C7: opening a SHORT while a LONG of non-zero quantity exists on the same
\* (account, symbol), or a LONG while a SHORT exists, is always rejected with a
\* ConflictingPosition error, for every leverage of the existing position and of
\* the new order in [1, max].
C7_OppositeOpenRejected ==
    OpensAgainstOpposite => last.err = "ConflictingPosition"

\* C8: when an open is rejected because an opposite-direction position exists,
\* current_cash, margin_used, the position and the trade list are the same as
\* before the call.
C8_RejectedOpenChangesNothing ==
    (last.op = "crypto" /\ last.err = "ConflictingPosition") =>
        /\ sess.acct[last.a] = last.pre.acct[last.a]
        /\ PosAfter = PosBefore
        /\ sess.trades = last.pre.trades

\* the latest call is the full close, at the price of the open and with no time
\* elapsed, of the position the call before it opened on a flat symbol
ClosesJustOpened ==
    /\ last.op = "crypto" /\ last.opened # NoOpen
    /\ last.symbol = last.opened.symbol
    /\ last.side = (IF last.opened.side = "LONG" THEN "SELL" ELSE "BUY")
    /\ last.quantity = last.opened.quantity
    /\ last.exec_price = last.opened.exec_price

\* C9: opening a LONG or SHORT of Q at P with leverage L in [1, max] on a flat
\* symbol and then fully closing it at P with no elapsed interest changes
\* current_cash by exactly -(fee_open + fee_close), returns margin_used to its
\* value before the open, and leaves the position flat.
C9_RoundTrip ==
    ClosesJustOpened =>
        /\ last.err = ""
        /\ sess.acct[last.a].current_cash =
              last.opened.current_cash - last.opened.fee
                  - _calc_crypto_fee(last.exec_price * last.quantity, 1)
        /\ sess.acct[last.a].margin_used = last.opened.margin_used
        /\ PosAfter.quantity = 0

\* the closing side of a position
CloseSideOf(position) == IF position.side = "LONG" THEN "SELL" ELSE "BUY"

\* C10: when a sweep finds margin_used > 0 and equity / margin_used below the
\* maintenance ratio, it produces exactly one closing order per open leveraged
\* position of the account, each a MARKET order on the opposite side for the
\* full quantity, and afterwards every such position has quantity 0 and no side.
C10_SweepLiquidatesAll ==
    (/\ last.op = "sweep"
     /\ \A i \in 1..Len(last.syms) : last.prices[last.syms[i]] > 0
     /\ MarginCall(last.pre, last.a, last.syms, last.prices)) =>
        /\ Len(db.orders) = Len(last.pre.orders) + Len(last.syms)
        /\ \A i \in 1..Len(last.syms) :
              LET o == db.orders[Len(last.pre.orders) + i]
                  before == last.pre.pos[last.a][<<last.syms[i], "CRYPTO">>]
                  after == db.pos[last.a][<<last.syms[i], "CRYPTO">>]
              IN /\ o.symbol = last.syms[i] /\ o.order_type = "MARKET"
                 /\ o.side = CloseSideOf(before) /\ o.quantity = before.quantity
                 /\ after.quantity = 0 /\ after.side = "NULL"

\* the sweep of the latest call found a price for every leveraged position of
\* its account
SweepPriced ==
    /\ last.op = "sweep" /\ last.syms # << >>
    /\ \A i \in 1..Len(last.syms) : last.prices[last.syms[i]] > 0

\* the sweep of the latest call force-liquidated: it created liquidation orders
SweepLiquidated == last.op = "sweep" /\ Len(db.orders) > Len(last.pre.orders)

\* unrealized PnL of the position the account of the sweep held in symbol s,
\* 0 when the position is not leveraged
SweepPnl(s) ==
    LET p == last.pre.pos[last.a][<<s, "CRYPTO">>]
        price == last.prices[s]
    IN IF ~(p.present /\ p.quantity > 0 /\ p.leverage > 1) THEN 0
       ELSE IF p.side = "SHORT" THEN p.quantity * (p.avg_cost - price)
       ELSE p.quantity * (price - p.avg_cost)

SweepEquity == last.pre.acct[last.a].current_cash + SweepPnl("BTC") + SweepPnl("ETH")

AshareCall ==
    \/ last.op \in {"astock", "mt5"}
    \/ last.op = "futu" /\ last.market = "CN"

\* the latest call raised and left the session and the durable ledger as they were
RejectedUntouched == last.err # "" /\ sess = last.pre /\ db = last.preDb

\* C12: an A-share order whose quantity is not a multiple of 100 is rejected
\* before any ledger mutation (no order row, no cash, position or trade
\* change), whichever executor receives the A-share symbol.
C12_OffLotRejected ==
    (AshareCall /\ last.quantity % 100 # 0) => RejectedUntouched

\* the example scenario: an account with cash 100000.00 and no position in
\* 600000 on the CN market buys 100 shares at 10.00
ExampleScenario ==
    /\ last.op \in ExecutorOps /\ last.market = "CN" /\ last.symbol = "600000"
    /\ last.side = "BUY" /\ last.quantity = 100 /\ last.exec_price = 1000
    /\ last.pre.acct[last.a].current_cash = 10000000
    /\ ~last.pre.pos[last.a][<<"600000", "CN">>].present

\* the outcome the example expects: total fee 5.02 (commission 5 and transfer
\* fee 0.02), current_cash 98994.98, position quantity 100 at avg_cost 10.00
ExampleOutcome ==
    /\ last.err = ""
    /\ FilledTrade.commission + FilledTrade.taker_fee = 502
    /\ sess.acct[last.a].current_cash = 9899498
    /\ sess.pos[last.a][<<"600000", "CN">>].quantity = 100
    /\ sess.pos[last.a][<<"600000", "CN">>].avg_cost = 1000

\* C13: for an account with cash 100000 and no position, BUY 100 shares of
\* 600000 at price 10.00 on the CN market charges commission 5 and transfer
\* fee 0.02 (total fee 5.02), leaves current_cash = 98994.98, and yields a
\* position with quantity 100 and avg_cost 10.00.
C13_ExampleScenario == ExampleScenario => ExampleOutcome

\* the example holds for the orders that reach place_and_execute_mt5_order
ExampleThroughMt5 == (ExampleScenario /\ last.op = "mt5") => ExampleOutcome

\* the errors raised after the order row was flushed, for want of cash or of
\* position
ResourceErrors == {"InsufficientFunds", "NoPosition"}

\* the number of the order row the latest call flushed
CalledOrderNo == Len(last.pre.orders) + 1

\* C14: when an order is rejected for a resource error after its row was
\* flushed, the row is kept in the durable ledger with status REJECTED: it is
\* neither dropped nor left PENDING.
C14_RejectedOrderKept ==
    (last.op \in ExecutorOps /\ last.err \in ResourceErrors) =>
        /\ CalledOrderNo <= Len(db.orders)
        /\ db.orders[CalledOrderNo].status = "REJECTED"

\* an order row whose execution call has ended: FILLED with the whole quantity
\* filled, or REJECTED with nothing filled
Settled(o) ==
    \/ o.status = "FILLED" /\ o.filled_quantity = o.quantity
    \/ o.status = "REJECTED" /\ o.filled_quantity = 0

\* C15: every order is created PENDING and reaches FILLED or REJECTED within
\* its execution call, so no durable order is PENDING once a call has ended;
\* filled_quantity is 0 until FILLED and equal to quantity once FILLED; FILLED
\* and REJECTED are terminal: no later operation changes the status.
C15_OrderLifecycle ==
    [][/\ \A i \in 1..Len(db'.orders) : Settled(db'.orders[i])
       /\ \A i \in 1..Len(db.orders) :
             (i <= Len(db'.orders) /\ db.orders[i].status \in {"FILLED", "REJECTED"}) =>
                 /\ db'.orders[i].status = db.orders[i].status
                 /\ db'.orders[i].filled_quantity = db.orders[i].filled_quantity]_vars

FilledOpen == last.op = "crypto" /\ last.err = "" /\ last.side \in {"LONG", "SHORT"}

\* C17: a position row carries at most one direction, and an open of one
\* direction never silently replaces holdings of the other direction: an open
\* that fills finds the symbol flat or held in its own direction, and leaves
\* the row in that direction.
C17_OneDirection ==
    FilledOpen =>
        /\ PosAfter.side = last.side
        /\ PosBefore.quantity > 0 => PosBefore.side = last.side

\* a position row that holds nothing is neutral: no side, leverage 1
Neutral(p) == p.quantity = 0 => (p.side = "NULL" /\ p.leverage = 1)

\* C18: whenever a crypto position's quantity reaches 0 through a close
\* (a leveraged close, or a SELL of a position opened with leverage 1), its
\* side is reset to null, its leverage to 1 and its last_interest_time to null;
\* in every reachable state quantity = 0 implies side = null and leverage = 1;
\* the position row is never deleted.
C18_FlatPositionNeutral ==
    /\ \A a \in Accounts, s \in CryptoSymbols :
          Neutral(sess.pos[a][<<s, "CRYPTO">>]) /\ Neutral(db.pos[a][<<s, "CRYPTO">>])
    /\ (last.op = "crypto" /\ last.err = "" /\ IsClosingCall /\ PosAfter.quantity = 0) =>
          (PosAfter.present /\ PosAfter.last_interest_time = NoTime)

\* the latest call was a MARKET order whose oracle had no price (None, or an
\* exception) or returned zero
MarketUnpriced ==
    /\ last.op \in ExecutorOps /\ last.order_type = "MARKET"
    /\ last.oracle \in {NoPrice, 0}
    /\ last.err # "InvalidQuantity"

\* C19: for every executor, a MARKET order whose oracle returns None, returns
\* zero or throws is rejected as price-unavailable: no order is FILLED, no
\* trade is recorded and cash and positions are unchanged.
C19_UnpricedMarketRejected ==
    MarketUnpriced =>
        /\ last.err = "PriceUnavailable"
        /\ sess.trades = last.pre.trades
        /\ sess.acct = last.pre.acct /\ sess.pos = last.pre.pos
        /\ \A i \in 1..Len(sess.orders) :
              i > Len(last.pre.orders) => sess.orders[i].status # "FILLED"

\* the minimum order size of a market: 100 for A-share / CN and HK, 1 for US,
\* CRYPTO_MIN_ORDER_QUANTITY for crypto
MarketMinimum(market) ==
    IF market \in {"ASTOCK", "CN"} THEN CN_MIN_ORDER_QUANTITY
    ELSE IF market = "HK" THEN HK_MIN_ORDER_QUANTITY
    ELSE IF market = "US" THEN US_MIN_ORDER_QUANTITY
    ELSE CRYPTO_MIN_ORDER_QUANTITY

\* C20: every executor rejects, before creating the order row or changing any
\* ledger state, an order whose quantity is below the minimum order size of
\* its market, zero and negative quantities included.
C20_BelowMinimumRejected ==
    (last.op \in ExecutorOps /\ last.quantity < MarketMinimum(last.market)) =>
        RejectedUntouched

\* C21: a crypto call with leverage outside [1, CRYPTO_MAX_LEVERAGE] is
\* rejected before any state is created; in every reachable state every crypto
\* position has 1 <= leverage <= CRYPTO_MAX_LEVERAGE, also after the
\* weighted-average recomputation of an add; every order and position of
\* another market has leverage 1.
C21_LeverageBounds ==
    /\ (last.op = "crypto" /\ ~(1 <= last.leverage /\ last.leverage <= CRYPTO_MAX_LEVERAGE)) =>
          RejectedUntouched
    /\ \A a \in Accounts, k \in PosKeys :
          \A p \in {sess.pos[a][k], db.pos[a][k]} :
              IF k[2] = "CRYPTO"
              THEN 1 <= p.leverage /\ p.leverage <= CRYPTO_MAX_LEVERAGE
              ELSE p.leverage = 1
    /\ \A i \in 1..Len(sess.orders) :
          sess.orders[i].market # "CRYPTO" => sess.orders[i].leverage = 1

\* an add with another leverage has just filled on a leveraged position, which
\* recomputed the leverage of the position
C21_Witness ==
    /\ FilledOpen /\ PosBefore.quantity > 0 /\ PosBefore.leverage > 1
    /\ PosBefore.side = last.side /\ last.leverage # PosBefore.leverage
    /\ PosAfter.quantity = PosBefore.quantity + last.quantity

\* the latest call was a closing order of the crypto executor on a position
\* that was open in a direction
ClosesDirected ==
    /\ last.op = "crypto" /\ last.side \in {"BUY", "SELL"}
    /\ PosBefore.present /\ PosBefore.quantity > 0
    /\ PosBefore.side \in {"LONG", "SHORT"}

\* C22: a crypto closing order is accepted only if its side is the inverse of
\* position.side (SELL closes LONG, BUY closes SHORT); with the other side it
\* is rejected with SideMismatch (or earlier, for the interest it cannot pay)
\* and leaves the durable ledger and the quantity of the position as they
\* were, whatever the leverage of the position in [1, max].
C22_CloseSideInverse ==
    ClosesDirected =>
        /\ last.err = "" => last.side = CloseSideOf(PosBefore)
        /\ last.side # CloseSideOf(PosBefore) =>
              /\ last.err \in {"SideMismatch", "InsufficientFunds"}
              /\ db = last.preDb
              /\ PosAfter.quantity = PosBefore.quantity

\* the same for the positions whose leverage is above 1
CloseSideInverseLeveraged == (ClosesDirected /\ PosBefore.leverage > 1) => C22_CloseSideInverse

\* the latest call was an add or a close of the crypto executor on a leveraged
\* position whose accrued interest exceeded the cash of the account
InterestShortfall ==
    /\ last.op = "crypto" /\ last.side \in {"LONG", "SHORT", "BUY", "SELL"}
    /\ PosBefore.present /\ PosBefore.quantity > 0
    /\ PosBefore.leverage > 1 /\ PosBefore.side # "NULL"
    /\ _calculate_position_interest(PosBefore, last.t) > 0
    /\ _calculate_position_interest(PosBefore, last.t) > last.pre.acct[last.a].current_cash

\* C23: interest is never partially charged: when the interest accrued on a
\* leveraged position exceeds the cash available as an add or a close touches
\* it, the operation is rejected and current_cash, margin_used, the quantity,
\* accumulated_interest and last_interest_time of the position equal their
\* values before the call.
C23_InterestAllOrNothing ==
    InterestShortfall =>
        /\ last.err # ""
        /\ sess.acct[last.a] = last.pre.acct[last.a]
        /\ PosAfter.quantity = PosBefore.quantity
        /\ PosAfter.accumulated_interest = PosBefore.accumulated_interest
        /\ PosAfter.last_interest_time = PosBefore.last_interest_time

\* C24: for every spot executor called with the platform-mirror flag set, the
\* local outcome does not depend on the remote platform: the error, the order
\* rows, current_cash, positions and trades are those of the same call without
\* the mirror, whether the remote call succeeds, returns failure or throws;
\* an order that passes the local checks ends FILLED with its trade recorded.
C24_MirrorIndependent ==
    (last.op \in ExecutorOps /\ last.use_platform) =>
        /\ last.err = last.local.err
        /\ sess = last.local.L
        /\ last.err = "" =>
              /\ db = sess
              /\ FilledOrder.status = "FILLED"
              /\ FilledTrade.order_id = Len(sess.orders)
        /\ last.err \in {"", "InvalidQuantity", "PriceUnavailable", "InsufficientFunds", "NoPosition"}

\* a mirrored order whose remote call threw has just been filled
C24_Witness ==
    /\ last.op \in ExecutorOps /\ last.use_platform /\ last.remote = "throw"
    /\ last.err = "" /\ FilledOrder.status = "FILLED"

BothOrdersDone ==
    \A w \in Workers : inflight.w[w].stage = "done" /\ inflight.w[w].kind = "order"

\* the ledger state the claim compares
LedgerState(L) == [acct |-> L.acct, pos |-> L.pos, trades |-> L.trades]

\* the ledger after the two requests, one after the other, first then second
Serial(first, second) ==
    RunOrder(RunOrder(inflight.base, "acc1", inflight.w[first].o, 0),
             "acc1", inflight.w[second].o, 0)

\* C26: for two orders submitted at the same time against one account, the
\* final ledger state (current_cash, margin_used, positions, trades) equals
\* that of executing the two orders one after the other in some order, and
\* no second Position row exists for an (account, symbol, market).
C26_Serialized ==
    BothOrdersDone =>
        /\ \/ LedgerState(db) = LedgerState(Serial("w1", "w2"))
           \/ LedgerState(db) = LedgerState(Serial("w2", "w1"))
        /\ \A w \in Workers : inflight.w[w].second = {}

\* the liquidation orders that the sweep which has just committed wrote
SweepWrote ==
    IF last.op = "sweep_commit"
    THEN {i \in 1..Len(db.orders) : i > Len(last.preDb.orders)}
    ELSE {}

\* C27: a liquidation of the margin monitor is serialized with a user order
\* against the same account: when the sweep writes liquidation orders, the
\* cash, margin and positions it decided on are those of the ledger at that
\* moment (no user order committed since the sweep read them), and no
\* liquidation order closes more than the position holds at that moment.
C27_LiquidationSerialized ==
    SweepWrote # {} =>
        /\ last.pre.acct = last.preDb.acct /\ last.pre.pos = last.preDb.pos
        /\ \A i \in SweepWrote :
              db.orders[i].status = "FILLED" =>
                db.orders[i].quantity
                    <= last.preDb.pos[last.a][<<db.orders[i].symbol, "CRYPTO">>].quantity

\* the jobs registered under an id, and the jobs under every other id
JobsOf(jobs, job_id) == SelectSeq(jobs, LAMBDA j : j.id = job_id)
JobsBut(jobs, job_id) == SelectSeq(jobs, LAMBDA j : j.id # job_id)

\* C28: after any sequence of start, add_account_snapshot_task(a, i) and
\* add_margin_monitor_task(i) calls (and removals) there is at most one job
\* per job id, and an add call for a job id that is registered leaves the
\* jobs, that job's interval included, unchanged.
C28_RegistrationIdempotent ==
    /\ \A id \in TaskIds : Len(JobsOf(sched.jobs, id)) <= 1
    /\ (sched.call.op = "add" /\ JobsOf(sched.call.pre, sched.call.id) # << >>)
            => sched.jobs = sched.call.pre

\* an add call with another interval for a job that is registered
C28_Witness ==
    /\ sched.call.op = "add"
    /\ JobsOf(sched.call.pre, sched.call.id) # << >>
    /\ JobsOf(sched.call.pre, sched.call.id)[1].seconds # sched.call.interval
    /\ Len(sched.jobs) = 3

\* after the latest call the job id it names is not registered and the jobs
\* under every other id are as before
JobGone ==
    /\ JobsOf(sched.jobs, sched.call.id) = << >>
    /\ JobsBut(sched.jobs, sched.call.id) = JobsBut(sched.call.pre, sched.call.id)

\* the removal calls alone: they never raise and remove just the job
RemovalGraceful == sched.call.op = "remove" => (~sched.call.raised /\ JobGone)

\* C29: remove_account_snapshot_task(a) and remove_task(id) never raise,
\* registered or not, started or not, and afterwards that job id is not
\* registered and every other job is unchanged; a snapshot tick for an
\* account with no active connection removes that account's snapshot job
\* and does nothing else.
C29_RemovalGraceful ==
    /\ RemovalGraceful
    /\ (sched.call.op = "tick" /\ ~sched.call.connected) => JobGone

\* position_equity of the valuation rule: quantity*price/leverage +
\* quantity*(price - avg_cost) for leverage > 1, quantity*price for leverage 1
position_equity(position, price) ==
    IF position.leverage > 1
    THEN (position.quantity * price) \div position.leverage
            + position.quantity * (price - position.avg_cost)
    ELSE position.quantity * price

\* the sum of position_equity over the positions of keys that have a price
RECURSIVE EquityOfPriced(_, _, _, _)
EquityOfPriced(L, a, keys, prices) ==
    IF keys = {} THEN 0
    ELSE LET k == CHOOSE x \in keys : TRUE IN
         (IF L.pos[a][k].present /\ Quote(prices, k) # NoPrice
          THEN position_equity(L.pos[a][k], Quote(prices, k)) ELSE 0)
         + EquityOfPriced(L, a, keys \ {k}, prices)

\* the latest call valued an account that holds a position
Valued ==
    /\ last.op = "valuation"
    /\ \E k \in PosKeys : db.pos[last.a][k].quantity > 0

\* C30: calc_positions_market_value returns the sum of position_equity over
\* the account's positions (LONG or SHORT) whose price the oracle returned,
\* and the last point of the asset curve gives the positions the same value.
C30_PositionEquity ==
    Valued =>
        /\ last.market_value = EquityOfPriced(db, last.a, PosKeys, last.prices)
        /\ last.positions_value = last.market_value

\* the same with every returned quote positive
EquityAgreesWhenPositive ==
    (Valued /\ \A s \in CryptoSymbols : last.prices[s] # 0) =>
        /\ last.market_value = EquityOfPriced(db, last.a, PosKeys, last.prices)
        /\ last.positions_value = last.market_value

\* the latest call produced a total-assets figure for the account as it is
\* now, the account holds an open leveraged position and every quote is a price
FigureWithLeverage ==
    /\ last.op \in {"valuation", "portfolio", "curve"}
    /\ last.upto = Len(db.trades)
    /\ \E k \in PosKeys : db.pos[last.a][k].quantity > 0 /\ db.pos[last.a][k].leverage > 1
    /\ \A s \in CryptoSymbols : last.prices[s] # NoPrice /\ last.prices[s] > 0

\* C31: every total_assets figure for an account with a leveraged position
\* (asset curve points, the portfolio of _get_portfolio_data) is its cash
\* plus the position equity, never cash plus quantity*price*leverage.
C31_TotalAssetsFromEquity ==
    FigureWithLeverage =>
        last.total_assets = last.cash + EquityOfPriced(db, last.a, PosKeys, last.prices)

\* the same for the last point of the asset curve alone
LastPointFromEquity ==
    (FigureWithLeverage /\ last.op = "valuation") =>
        last.total_assets = last.cash + EquityOfPriced(db, last.a, PosKeys, last.prices)

\* the A-share fee schedule: max(notional * 0.03%, 5) + notional * 0.002%
\* transfer fee + notional * 0.1% stamp tax on a SELL
AshareFee(notional, side) ==
    Max((notional * 30) \div 100000, 500) + (notional * 2) \div 100000
        + (IF side = "SELL" THEN (notional * 100) \div 100000 ELSE 0)

\* the fee the filled order of the latest call took from the cash, beyond
\* the notional
FeeDeducted ==
    LET notional == last.exec_price * last.quantity
        before == last.pre.acct[last.a].current_cash
        after == sess.acct[last.a].current_cash
    IN IF last.side = "BUY" THEN (before - after) - notional
       ELSE notional - (after - before)

\* C32: for every A-share/CN order, whichever executor handles it
\* (place_and_execute_astock, place_and_execute_mt5_order), the total fee
\* deducted is max(notional*0.03%, 5) + notional*0.002% transfer fee +
\* notional*0.1% stamp tax on a SELL, and no stamp tax on a BUY.
C32_AshareFeeSchedule ==
    (last.op \in {"astock", "mt5"} /\ Filled) =>
        FeeDeducted = AshareFee(last.exec_price * last.quantity, last.side)

\* the same for the orders place_and_execute_mt5_order handles
CnFeeSchedule ==
    (last.op = "mt5" /\ Filled) =>
        FeeDeducted = AshareFee(last.exec_price * last.quantity, last.side)

\* the interest a touch at the clock of the latest call owes on a position:
\* the hourly rate on the borrowed notional
\* quantity * avg_cost * (leverage - 1) / leverage for the hours since
\* last_interest_time, and nothing on a position whose leverage is 1
InterestDue(p) ==
    IF p.leverage <= 1 \/ p.last_interest_time = NoTime THEN 0
    ELSE LET borrowed == (p.quantity * p.avg_cost * (p.leverage - 1)) \div p.leverage
             hourly == (borrowed * CRYPTO_INTEREST_RATE_HOURLY) \div 100000
         IN hourly * (last.t - p.last_interest_time)

\* the latest call is a filled crypto order on a position that was open
\* before it
Touched ==
    /\ last.op = "crypto" /\ Filled
    /\ PosBefore.present /\ PosBefore.quantity > 0

\* what the latest call moved the cash by apart from the interest: the margin
\* and the fee of an add, the PnL, the released margin and the fee of a
\* leveraged close, the proceeds less the fee of a spot sell
CashMoveOfTouch ==
    LET notional == last.exec_price * last.quantity
        fee == FilledTrade.taker_fee
        entry == PosBefore.avg_cost * last.quantity
    IN IF last.side \in {"LONG", "SHORT"} THEN 0 - ((notional \div last.leverage) + fee)
       ELSE IF PosBefore.leverage > 1
            THEN (IF PosBefore.side = "LONG" THEN notional - entry ELSE entry - notional)
                     + (entry \div PosBefore.leverage) - fee
            ELSE notional - fee

InterestOnPartialClose ==
    /\ Touched /\ last.side \in {"BUY", "SELL"}
    /\ PosBefore.leverage > 1 /\ FilledTrade.interest_charged > 0
    /\ PosAfter.quantity > 0

\* a full close that paid interest and cleared last_interest_time
InterestOnFullClose ==
    /\ Touched /\ last.side \in {"BUY", "SELL"}
    /\ PosBefore.leverage > 1 /\ FilledTrade.interest_charged > 0
    /\ PosAfter.quantity = 0 /\ PosAfter.last_interest_time = NoTime

\* the margin that full closes of the open leveraged positions of an account
\* would release: quantity * avg_cost / leverage of each
RECURSIVE ReleasableMargin(_, _, _)
ReleasableMargin(L, a, keys) ==
    IF keys = {} THEN 0
    ELSE LET k == CHOOSE x \in keys : TRUE
             p == L.pos[a][k]
         IN (IF p.present /\ p.quantity > 0 /\ p.leverage > 1
             THEN (p.quantity * p.avg_cost) \div p.leverage ELSE 0)
            + ReleasableMargin(L, a, keys \ {k})

\* C34: in every reachable state margin_used equals the sum, over the open
\* leveraged positions of the account, of the margin a full close of the
\* position would release (quantity * avg_cost / leverage); margin_used is 0
\* when the account holds no open leveraged position, also after
\* same-direction adds made with different leverages.
C34_MarginConservation ==
    \A a \in Accounts :
        db.acct[a].margin_used = ReleasableMargin(db, a, DOMAIN db.pos[a])

\* an account without an open leveraged position whose margin_used is below 0:
\* the full close released more than the opens had reserved
MarginBelowZero ==
    \E a \in Accounts :
        /\ ReleasableMargin(db, a, DOMAIN db.pos[a]) = 0
        /\ db.acct[a].margin_used < 0

\* C35: once a position has been opened with leverage > 1, its stored
\* leverage stays > 1 after every same-direction add (adds with leverage 1
\* included) until it is fully closed, so that it stays in the leverage > 1
\* selection of the margin monitor and is closed through the leveraged close
\* that releases its margin.
C35_LeverageStaysAboveOne ==
    (/\ last.op = "crypto" /\ Filled
     /\ PosBefore.present /\ PosBefore.quantity > 0 /\ PosBefore.leverage > 1
     /\ PosAfter.quantity > 0)
        => (PosAfter.leverage > 1 /\ last.symbol \in LeveragedPositions(sess, last.a))

\* a position that holds margin and is sold through the spot close, in a run
\* where every order filled: the sale releases no margin, and the account
\* keeps margin_used with no position in the leverage > 1 selection
MarginLeftBehind ==
    /\ last.op = "crypto" /\ Filled /\ last.side = "SELL"
    /\ \A i \in 1..Len(sess.orders) : sess.orders[i].status = "FILLED"
    /\ PosBefore.leverage = 1
    /\ LeveragedPositions(sess, last.a) = {}
    /\ sess.acct[last.a].margin_used > 0
    /\ sess.acct[last.a].margin_used = last.pre.acct[last.a].margin_used

\* C36: in every reachable state every position has quantity >= 0 and
\* available_quantity >= 0, after any sequence of opens, same-direction adds,
\* partial closes and full closes by any executor.
C36_QuantitiesNotNegative ==
    \A a \in Accounts : \A k \in DOMAIN db.pos[a] :
        db.pos[a][k].quantity >= 0 /\ db.pos[a][k].available_quantity >= 0

\* the same for the positions of the spot executors
SpotQuantitiesNotNegative ==
    \A a \in Accounts : \A k \in DOMAIN db.pos[a] :
        k[2] # "CRYPTO" =>
            (db.pos[a][k].quantity >= 0 /\ db.pos[a][k].available_quantity >= 0)

\* the trades of a ledger that belong to the order with number oid
TradesOf(L, oid) == {i \in 1..Len(L.trades) : L.trades[i].order_id = oid}

\* each FILLED order of the committed ledger has exactly one Trade, with the
\* account, symbol, side, price and quantity of the order, and each Trade
\* belongs to a FILLED order
AuditTrail(L) ==
    /\ \A oid \in 1..Len(L.orders) :
        L.orders[oid].status = "FILLED" =>
            /\ Cardinality(TradesOf(L, oid)) = 1
            /\ \A i \in TradesOf(L, oid) :
                /\ L.trades[i].account_id = L.orders[oid].account_id
                /\ L.trades[i].symbol = L.orders[oid].symbol
                /\ L.trades[i].side = L.orders[oid].side
                /\ L.trades[i].price = L.orders[oid].price
                /\ L.trades[i].quantity = L.orders[oid].quantity
    /\ \A i \in 1..Len(L.trades) :
        /\ L.trades[i].order_id \in 1..Len(L.orders)
        /\ L.orders[L.trades[i].order_id].status = "FILLED"

\* the committed trades of before a step are the first committed trades of
\* after it, unchanged
TradesKept ==
    /\ Len(db'.trades) >= Len(db.trades)
    /\ \A i \in 1..Len(db.trades) : db'.trades[i] = db.trades[i]

\* C37: in every committed state each FILLED order has exactly one Trade,
\* with the same account, symbol, side, price and quantity as the order, each
\* Trade belongs to a FILLED order, and no operation modifies or removes an
\* existing Trade.
C37_AuditTrail == [][AuditTrail(db) /\ AuditTrail(db') /\ TradesKept]_vars

\* two orders filled by different executors, each with its Trade
C37_Witness ==
    /\ Len(db.trades) = 2
    /\ db.orders[db.trades[1].order_id].status = "FILLED"
    /\ db.orders[db.trades[2].order_id].status = "FILLED"
    /\ db.trades[1].market # db.trades[2].market

\* the latest call is a filled leveraged open by an account that held no
\* leveraged position and no margin before it
OpenedFirstLeveraged ==
    /\ last.op = "crypto" /\ Filled
    /\ last.side \in {"LONG", "SHORT"} /\ last.leverage > 1
    /\ LeveragedPositions(last.pre, last.a) = {}
    /\ last.pre.acct[last.a].margin_used = 0
    /\ ~PosBefore.present

\* the step is a sweep of the margin monitor over the account of the latest
\* call, with the oracle at the fill price of that call
SweepAtFillPrice ==
    /\ last'.op = "sweep" /\ last'.a = last.a
    /\ last'.prices[last.symbol] = last.exec_price

\* C38: for an account with no prior leveraged position, immediately after a
\* successful leveraged open (LONG or SHORT, any size the funds check
\* accepts) and with the oracle price equal to the fill price, a sweep of the
\* margin monitor does not liquidate the account.
C38_NoInstantLiquidation ==
    [][(OpenedFirstLeveraged /\ SweepAtFillPrice) =>
           (Len(db'.orders) = Len(db.orders) /\ db'.pos = db.pos)]_vars

\* every position of the ledger with leverage > 1 and quantity > 0 has a side
DirectionKnown(L) ==
    \A a \in Accounts : \A k \in DOMAIN L.pos[a] :
        (L.pos[a][k].leverage > 1 /\ L.pos[a][k].quantity > 0)
            => L.pos[a][k].side \in {"LONG", "SHORT"}

\* C39: in every reachable state a position with leverage > 1 and
\* quantity > 0 has side LONG or SHORT, so that the PnL formula of the margin
\* monitor and the close side of the liquidation (SELL for LONG, BUY
\* otherwise) refer to the same direction.
C39_DirectionKnown == DirectionKnown(db) /\ DirectionKnown(sess)

\* a full close and a same-direction add of one position ran at the same
\* time, and the row keeps the add's quantity and leverage with no side
SideLost ==
    /\ BothOrdersDone
    /\ \E a \in Accounts : \E k \in DOMAIN db.pos[a] :
        /\ db.pos[a][k].quantity > 0 /\ db.pos[a][k].leverage > 1
        /\ db.pos[a][k].side = "NULL"

\* the latest call computed a curve point that is not the last one, at a
\* timestamp after all the trades of a ledger in which every order filled:
\* the ledger holds the cash that executing exactly those trades left
ReplayedAllTrades ==
    /\ last.op = "curve" /\ last.upto = Len(db.trades)
    /\ \A i \in 1..Len(db.orders) : db.orders[i].status = "FILLED"
    /\ \A i \in 1..Len(db.trades) : db.trades[i].account_id = last.a

\* C40: for every account and every curve timestamp that is not the last
\* one, the cash that _create_account_timeline reconstructs as
\* initial_capital plus the signed trade amounts up to that timestamp equals
\* the current_cash the ledger held after executing exactly those trades, for
\* spot BUY/SELL trades and for leveraged LONG/SHORT opens and BUY/SELL closes.
C40_ReplayMatchesLedger ==
    ReplayedAllTrades => last.cash = db.acct[last.a].current_cash

\* the same for ledgers whose trades are all spot BUYs
ReplayMatchesSpotBuys ==
    (ReplayedAllTrades /\ \A i \in 1..Len(db.trades) :
        db.trades[i].side = "BUY" /\ db.trades[i].market # "CRYPTO")
        => last.cash = db.acct[last.a].current_cash

====
